---- MODULE Spec2Model ----
(***************************************************************************)
(* Ticketing-System: the tickets router (api/routes/tickets.js) with its   *)
(* two persistent copies of every ticket, the Record Store (the Mongoose   *)
(* model Ticket) and the CSV Mirror (data/tickets.csv), and the two        *)
(* history logs.                                                           *)
(*                                                                         *)
(* Text.  A JavaScript string is a sequence of tokens.  The tokens Q       *)
(* (double quote), COMMA, NL (line feed) and SEMI are the characters the   *)
(* code treats specially; every other token stands for a non-empty run of  *)
(* ordinary characters, which no regular expression of the router tells    *)
(* apart.  '' is << >>.                                                    *)
(*                                                                         *)
(* Columns.  tickets.csv has 24 columns; the model keeps ticket_id,        *)
(* category, building, description, status, assigned_to and sla_breach in  *)
(* their file order.  The other plain-text columns are written and merged  *)
(* by the same expressions as description.                                 *)
(*                                                                         *)
(* Requests.  Under Spec every request runs to completion before the next  *)
(* one starts (one action per handler).  While dbUp is FALSE every Record  *)
(* Store call of a request fails (StoreUnavailable).  While histOk is      *)
(* FALSE fs.appendFileSync(HISTORY_FILE, ...) throws; under Spec the file  *)
(* system never fails, under SpecHistFail the history file can become      *)
(* unwritable.                                                             *)
(***************************************************************************)
EXTENDS Integers, Sequences, FiniteSets, TLC

VARIABLES
    store,        \* Ticket collection: sequence of documents, insertion order
    ticketsFile,  \* content of data/tickets.csv
    histFile,     \* entries appended to data/ticket_history.csv, file order
    histDb,       \* TicketHistory collection, insertion order
    dbUp,         \* the Record Store answers (FALSE: its calls fail)
    clock,        \* index into Days of the current date
    steps,        \* number of steps taken so far
    histOk,       \* data/ticket_history.csv can be written (FALSE: the
                  \* append throws)
    last,         \* the last request and its response
    reqs          \* the requests in progress whose handlers run step by
                  \* step: sequence of records, each with its position in
                  \* the handler and the handler's local values

vars == <<store, ticketsFile, histFile, histDb, dbUp, clock, steps, histOk,
          last, reqs>>

(***************************************************************************)
(* Bounds                                                                  *)
(***************************************************************************)
MaxSteps == 3

(***************************************************************************)
(* Text                                                                    *)
(***************************************************************************)
Q == "\""
COMMA == ","
NL == "\n"
SEMI == ";"

Empty == << >>

Last(s) == s[Len(s)]
Front(s) == SubSeq(s, 1, Len(s) - 1)

\* Array.prototype.join / String concatenation with a separator
RECURSIVE Join(_, _)
Join(parts, sep) ==
    IF parts = << >> THEN << >>
    ELSE IF Len(parts) = 1 THEN parts[1]
    ELSE parts[1] \o <<sep>> \o Join(Tail(parts), sep)

\* String.prototype.split(sep): ''.split(sep) is ['']
RECURSIVE NextSep(_, _, _)
NextSep(s, sep, i) ==
    IF i > Len(s) \/ s[i] = sep THEN i ELSE NextSep(s, sep, i + 1)

RECURSIVE SplitFrom(_, _, _)
SplitFrom(s, sep, i) ==
    LET j == NextSep(s, sep, i)
    IN  IF j > Len(s) THEN <<SubSeq(s, i, Len(s))>>
        ELSE <<SubSeq(s, i, j - 1)>> \o SplitFrom(s, sep, j + 1)

Split(s, sep) == SplitFrom(s, sep, 1)

\* String.prototype.trim(): the only white space of the model is NL
RECURSIVE TrimStart(_, _)
TrimStart(s, i) == IF i <= Len(s) /\ s[i] = NL THEN TrimStart(s, i + 1) ELSE i

RECURSIVE TrimEnd(_, _)
TrimEnd(s, j) == IF j >= 1 /\ s[j] = NL THEN TrimEnd(s, j - 1) ELSE j

Trim(s) == SubSeq(s, TrimStart(s, 1), TrimEnd(s, Len(s)))

\* .replace(/"/g, '""')
RECURSIVE DoubleQuotes(_)
DoubleQuotes(s) ==
    IF s = << >> THEN << >>
    ELSE IF Head(s) = Q THEN <<Q, Q>> \o DoubleQuotes(Tail(s))
    ELSE <<Head(s)>> \o DoubleQuotes(Tail(s))

\* .replace(/"/g, '')
RECURSIVE DropQuotes(_)
DropQuotes(s) ==
    IF s = << >> THEN << >>
    ELSE IF Head(s) = Q THEN DropQuotes(Tail(s))
    ELSE <<Head(s)>> \o DropQuotes(Tail(s))

\* csvEscape = val => `"${String(val || '').replace(/"/g, '""')}"`
csvEscape(val) == <<Q>> \o DoubleQuotes(val) \o <<Q>>

\* .replace(/^"|"$/g, ''): one leading and one trailing quote
StripQuotes(s) ==
    LET a == IF s # << >> /\ Head(s) = Q THEN Tail(s) ELSE s
    IN  IF a # << >> /\ Last(a) = Q THEN Front(a) ELSE a

\* .replace(/""/g, '"'): pairs, left to right, not overlapping
RECURSIVE UndoubleQuotes(_)
UndoubleQuotes(s) ==
    IF Len(s) < 2 THEN s
    ELSE IF s[1] = Q /\ s[2] = Q
         THEN <<Q>> \o UndoubleQuotes(SubSeq(s, 3, Len(s)))
         ELSE <<s[1]>> \o UndoubleQuotes(Tail(s))

\* v.replace(/^"|"$/g, '').replace(/""/g, '"')
Unquote(v) == UndoubleQuotes(StripQuotes(v))

(***************************************************************************)
(* line.match(/("([^"]|"")*"|[^,]+)/g) || []                               *)
(*                                                                         *)
(* QuotedEnd: the first alternative, entered after an opening quote.  The  *)
(* starred group takes a character that is no quote, or a pair of quotes;  *)
(* a quote that starts no pair closes the match.  When the line ends       *)
(* first, the engine backtracks to the last pair it took and closes the    *)
(* match on that pair's first quote (pair = 0: the alternative fails).     *)
(***************************************************************************)
RECURSIVE QuotedEnd(_, _, _)
QuotedEnd(line, i, pair) ==
    IF i > Len(line) THEN pair
    ELSE IF line[i] # Q THEN QuotedEnd(line, i + 1, pair)
    ELSE IF i + 1 <= Len(line) /\ line[i + 1] = Q THEN QuotedEnd(line, i + 2, i)
    ELSE i

\* the second alternative, [^,]+, from a character that is no comma
RECURSIVE UnquotedEnd(_, _)
UnquotedEnd(line, i) ==
    IF i + 1 <= Len(line) /\ line[i + 1] # COMMA THEN UnquotedEnd(line, i + 1)
    ELSE i

RECURSIVE MatchFrom(_, _)
MatchFrom(line, p) ==
    IF p > Len(line) THEN << >>
    ELSE LET qe == IF line[p] = Q THEN QuotedEnd(line, p + 1, 0) ELSE 0
         IN  IF qe # 0
             THEN <<SubSeq(line, p, qe)>> \o MatchFrom(line, qe + 1)
             ELSE IF line[p] # COMMA
                  THEN LET e == UnquotedEnd(line, p)
                       IN  <<SubSeq(line, p, e)>> \o MatchFrom(line, e + 1)
                  ELSE MatchFrom(line, p + 1)

matchCols(line) == MatchFrom(line, 1)

(***************************************************************************)
(* Program constants                                                       *)
(***************************************************************************)
\* the dates new Date() can return, as yyyymmdd, in calendar order: two
\* days of different months and different weeks of the year
Days == <<"20240128", "20240201">>

\* null / undefined of a Date-valued path
Null == "null"

\* the header written when tickets.csv is created (modelled columns)
HEADER == <<"ticket_id", "category", "building", "description", "status",
            "assigned_to", "sla_breach">>

InitialTicketsFile ==
    Join([i \in 1..Len(HEADER) |-> <<HEADER[i]>>], COMMA) \o <<NL>>

\* the keys every object literal inherits from Object.prototype
InheritedKeys ==
    {<<"constructor">>, <<"__proto__">>, <<"toString">>, <<"toLocaleString">>,
     <<"valueOf">>, <<"hasOwnProperty">>, <<"isPrototypeOf">>,
     <<"propertyIsEnumerable">>, <<"__defineGetter__">>, <<"__defineSetter__">>,
     <<"__lookupGetter__">>, <<"__lookupSetter__">>}

\* `${obj[key]}` of an inherited key: a built-in function or the prototype
InheritedText(key) ==
    IF key = <<"__proto__">> THEN "[object Object]"
    ELSE IF key = <<"constructor">> THEN "function Object() { [native code] }"
    ELSE "function " \o key[1] \o "() { [native code] }"

\* CATEGORY_SHORT[category] || 'GEN'; the lookup of a key that is not an
\* own property goes to Object.prototype
CATEGORY_SHORT(category) ==
    CASE category = <<"Network">> -> "NET"
      [] category = <<"Server">> -> "SER"
      [] category = <<"Storage">> -> "STOR"
      [] category = <<"Power">> -> "PWD"
      [] category = <<"Cooling">> -> "COOL"
      [] category = <<"Security">> -> "SEC"
      [] category = <<"Access Control">> -> "AC"
      [] category = <<"Application">> -> "APP"
      [] category = <<"Database">> -> "DBS"
      [] category \in InheritedKeys -> InheritedText(category)
      [] OTHER -> "GEN"

\* BUILDING_CODES[building] || 'LOS5', with the same lookup
BUILDING_CODES(building) ==
    IF building \in {<<"LOS1">>, <<"LOS2">>, <<"LOS3">>, <<"LOS4">>, <<"LOS5">>}
    THEN building[1]
    ELSE IF building \in InheritedKeys THEN InheritedText(building)
    ELSE "LOS5"

\* the paths of ticketSchema that the model keeps, and the timestamps option
SchemaPaths ==
    {"ticket_id", "category", "building", "description", "status",
     "assigned_to", "sla_breach", "createdAt"}

(***************************************************************************)
(* Request bodies: functions from the keys the caller sent to values.      *)
(* Text values are token sequences, assigned_to is an array of names,      *)
(* sla_breach a boolean.                                                   *)
(***************************************************************************)
Has(body, k) == k \in DOMAIN body

\* body[k] || ''
StrOr(body, k) == IF Has(body, k) THEN body[k] ELSE Empty

YesNo(b) == IF b THEN <<"Yes">> ELSE <<"No">>

\* String(n).padStart(4, '0')
padStart4(n) ==
    LET s == ToString(n)
    IN  IF n < 10 THEN "000" \o s
        ELSE IF n < 100 THEN "00" \o s
        ELSE IF n < 1000 THEN "0" \o s
        ELSE s

(***************************************************************************)
(* CSV Mirror reader, as each handler inlines it                           *)
(***************************************************************************)
\* fs.readFileSync(TICKETS_FILE, 'utf8').trim().split('\n')
ReadLines(file) == Split(Trim(file), NL)

\* lines.shift().split(',').map(h => h.replace(/"/g, ''))
ParseHeader(line) ==
    LET parts == Split(line, COMMA)
    IN  [i \in 1..Len(parts) |-> DropQuotes(parts[i])]

\* a header name as an object key
Key(h) == IF h = << >> THEN "" ELSE h[1]

\* header.indexOf(name), 1-based; 0 when absent
IndexOf(header, name) ==
    IF \E i \in 1..Len(header) : header[i] = name
    THEN CHOOSE i \in 1..Len(header) :
             header[i] = name /\ \A j \in 1..(i - 1) : header[j] # name
    ELSE 0

\* cols[0]?.replace(/^"|"$/g, '').replace(/""/g, '"') === id
RowHasId(line, id) ==
    LET cols == matchCols(line)
    IN  cols # << >> /\ Unquote(cols[1]) = id

\* header.forEach((h, i) => { obj[h] = unquote(cols[i] || '') })
RowObject(header, cols) ==
    [k \in {Key(header[i]) : i \in 1..Len(header)} |->
        LET i == CHOOSE j \in 1..Len(header) :
                     Key(header[j]) = k
                     /\ \A m \in (j + 1)..Len(header) : Key(header[m]) # k
        IN  IF i <= Len(cols) THEN Unquote(cols[i]) ELSE Empty]

\* the ticket_ids the mirror's readers see, one per data line
CsvIds(file) ==
    LET rows == Tail(ReadLines(file))
    IN  [i \in 1..Len(rows) |->
            LET cols == matchCols(rows[i])
            IN  IF cols = << >> THEN Empty ELSE Unquote(cols[1])]

StoreIds(st) == {st[i].ticket_id : i \in 1..Len(st)}

\* Ticket.findOne({ ticket_id: id }): index of the document, 0 when none
FindOne(st, id) ==
    LET hits == {i \in 1..Len(st) : st[i].ticket_id = id}
    IN  IF hits = {} THEN 0 ELSE CHOOSE i \in hits : \A j \in hits : i <= j

(***************************************************************************)
(* Identifier Generator                                                    *)
(***************************************************************************)
\* Ticket.countDocuments({ category })
CountDocuments(st, category) ==
    Cardinality({i \in 1..Len(st) : st[i].category = category})

\* a variant of the fallback count that counts every data row
CsvRowCount(file, category) ==
    LET lines == ReadLines(file)
    IN  IF Len(lines) > 1 /\ IndexOf(ParseHeader(lines[1]), <<"category">>) # 0
        THEN Len(lines) - 1 ELSE 0

\* the catch branch of generateTicketId: count the rows of tickets.csv
CsvCategoryCount(file, category) ==
    LET lines == ReadLines(file)
    IN  IF Len(lines) > 1
        THEN LET header == ParseHeader(lines[1])
                 catIndex == IndexOf(header, <<"category">>)
                 rows == Tail(lines)
             IN  IF catIndex # 0
                 THEN Cardinality({i \in 1..Len(rows) :
                          LET cols == matchCols(rows[i])
                          IN  catIndex <= Len(cols)
                              /\ Unquote(cols[catIndex]) = category})
                 ELSE 0
        ELSE 0

\* the fallback count under a condition of the file system: "read" when
\* the file is there and readFileSync returns it, "missing" when
\* fs.existsSync is false, "unreadable" when readFileSync throws
FallbackCount(file, cond, category) ==
    IF cond = "read" THEN CsvCategoryCount(file, category) ELSE 0

\* the sequence number generateTicketId puts in the id
SequenceNumber(st, file, category, up) ==
    IF up THEN CountDocuments(st, category) + 1
    ELSE CsvCategoryCount(file, category) + 1

\* `KASI-${buildingCode}-${yyyymmdd}-${short}-${sequence}` with
\* sequence = String(n).padStart(4, '0')
TicketIdOf(category, building, day, n) ==
    <<"KASI-" \o BUILDING_CODES(building) \o "-" \o Days[day] \o "-"
        \o CATEGORY_SHORT(category) \o "-" \o padStart4(n)>>

generateTicketId(st, file, category, building, day, up) ==
    TicketIdOf(category, building, day, SequenceNumber(st, file, category, up))

(***************************************************************************)
(* POST /                                                                  *)
(***************************************************************************)
\* body.ticket_id || await generateTicketId(body.category, body.building)
CreateId(st, file, body, day, up) ==
    IF StrOr(body, "ticket_id") # Empty THEN body["ticket_id"]
    ELSE generateTicketId(st, file, body["category"], StrOr(body, "building"),
                          day, up)

\* Array.isArray(body.assigned_to) ? body.assigned_to.join(';') : ''
AssignedToStr(body) ==
    IF Has(body, "assigned_to") THEN Join(body["assigned_to"], SEMI) ELSE Empty

\* the cells of the row appended to tickets.csv
CreateCells(id, body) ==
    <<csvEscape(id),
      csvEscape(StrOr(body, "category")),
      csvEscape(StrOr(body, "building")),
      csvEscape(StrOr(body, "description")),
      csvEscape(IF StrOr(body, "status") # Empty
                THEN body["status"] ELSE <<"Open">>),
      csvEscape(AssignedToStr(body)),
      csvEscape(YesNo(Has(body, "sla_breach") /\ body["sla_breach"]))>>

\* the row appended to tickets.csv
CreateRow(id, body) == Join(CreateCells(id, body), COMMA) \o <<NL>>

\* new Ticket({ ... }) with the timestamps option
TicketDoc(id, body, day) ==
    [ticket_id |-> id,
     category |-> StrOr(body, "category"),
     building |-> StrOr(body, "building"),
     description |-> StrOr(body, "description"),
     status |-> IF StrOr(body, "status") # Empty
                THEN body["status"] ELSE <<"Open">>,
     assigned_to |-> IF Has(body, "assigned_to")
                     THEN body["assigned_to"] ELSE << >>,
     sla_breach |-> Has(body, "sla_breach") /\ body["sla_breach"],
     createdAt |-> Days[day]]

\* ticketDoc.save(): the required validators of ticket_id and category
\* (an empty string fails required) and the unique index on ticket_id
SaveAccepted(st, doc) ==
    /\ doc.ticket_id # Empty
    /\ doc.category # Empty
    /\ FindOne(st, doc.ticket_id) = 0

\* a variant of HistoryEntry that labels every entry as an update
HistoryEntryAsUpdate(id, day, action, changes, editor) ==
    [ticket_id |-> id, timestamp |-> Days[day], action |-> "update",
     changes |-> changes, editor |-> editor]

\* one history entry: the CSV line and the TicketHistory document carry
\* the same ticket_id, action, changes and editor
HistoryEntry(id, day, action, changes, editor) ==
    [ticket_id |-> id, timestamp |-> Days[day], action |-> action,
     changes |-> changes, editor |-> editor]

\* a variant of the append that writes the file anew with the one line
writeHistory(log, entry) == <<entry>>

\* fs.appendFileSync(HISTORY_FILE, historyLine) / TicketHistory.create(...)
appendHistory(log, entry) == Append(log, entry)

NoTicket == [x \in {} |-> Empty]

\* the statistics body of a response that is not a statistics response
NoStats ==
    [totalTickets |-> 0, byStatus |-> << >>, byCategory |-> << >>,
     ticketsOverTime |-> << >>, breached |-> 0, onTime |-> 0,
     complianceRate |-> "", topCategory |-> Empty]

\* the argument object of a call of generateTicketId
GenerateArgs(category, building) == [category |-> category, building |-> building]

\* a request and its response: at = its position among the steps, dbUp =
\* whether the Record Store answered it, code = HTTP status, src = the copy
\* a read was served from, ticket = the ticket object of a read, repeat =
\* the request answered before it was the same request, with the store in
\* the same condition, entries = the list a history read returned, stats =
\* the body of a statistics response, list = the array a list read returned
Response(op, id, body, up, at, code, src, ticket) ==
    [op |-> op, id |-> id, body |-> body, dbUp |-> up, at |-> at,
     code |-> code, src |-> src, ticket |-> ticket,
     repeat |-> last.op = op /\ last.body = body /\ last.dbUp = up,
     entries |-> << >>, stats |-> NoStats, list |-> << >>]

CreateTicket(body) ==
    LET id == CreateId(store, ticketsFile, body, clock, dbUp)
        doc == TicketDoc(id, body, clock)
        entry == HistoryEntry(id, clock, "create", body,
                              StrOr(body, "reported_by"))
    IN  /\ steps' = steps + 1
        /\ ticketsFile' = ticketsFile \o CreateRow(id, body)
        /\ store' = IF dbUp /\ SaveAccepted(store, doc)
                    THEN Append(store, doc) ELSE store
        /\ histFile' = IF histOk THEN appendHistory(histFile, entry) ELSE histFile
        /\ histDb' = IF histOk /\ dbUp THEN appendHistory(histDb, entry) ELSE histDb
        /\ last' = Response("create", id, body, dbUp, steps + 1,
                            IF histOk THEN 200 ELSE 500, "none", NoTicket)
        /\ UNCHANGED <<dbUp, clock, histOk, reqs>>

(***************************************************************************)
(* A call of generateTicketId on its own.  code holds the sequence number  *)
(* the call computed.                                                      *)
(***************************************************************************)
\* a variant of the call that reserves the number it computed by appending
\* a row to tickets.csv
GenerateIdReserving(category, building) ==
    /\ steps' = steps + 1
    /\ last' = Response("generate",
                        generateTicketId(store, ticketsFile, category, building,
                                         clock, dbUp),
                        GenerateArgs(category, building), dbUp, steps + 1,
                        SequenceNumber(store, ticketsFile, category, dbUp),
                        "none", NoTicket)
    /\ ticketsFile' = ticketsFile \o
           CreateRow(generateTicketId(store, ticketsFile, category, building,
                                      clock, dbUp),
                     GenerateArgs(category, building))
    /\ UNCHANGED <<store, histFile, histDb, dbUp, clock, histOk, reqs>>

GenerateId(category, building) ==
    /\ steps' = steps + 1
    /\ last' = Response("generate",
                        generateTicketId(store, ticketsFile, category, building,
                                         clock, dbUp),
                        GenerateArgs(category, building), dbUp, steps + 1,
                        SequenceNumber(store, ticketsFile, category, dbUp),
                        "none", NoTicket)
    /\ UNCHANGED <<store, ticketsFile, histFile, histDb, dbUp, clock, histOk, reqs>>

\* a call of generateTicketId under a condition of the file system; src
\* holds the copy that was counted
GenerateFallback(category, building, cond) ==
    LET n == IF dbUp THEN CountDocuments(store, category) + 1
             ELSE FallbackCount(ticketsFile, cond, category) + 1
    IN  /\ steps' = steps + 1
        /\ last' = Response("generate",
                            TicketIdOf(category, building, clock, n),
                            GenerateArgs(category, building), dbUp, steps + 1,
                            n, IF dbUp THEN "store" ELSE cond, NoTicket)
        /\ UNCHANGED <<store, ticketsFile, histFile, histDb, dbUp, clock, histOk, reqs>>

\* the id generateTicketId builds when its count returns n - 1; code holds n
FormatId(category, building, n) ==
    /\ steps' = steps + 1
    /\ last' = Response("format", TicketIdOf(category, building, clock, n),
                        GenerateArgs(category, building), dbUp, steps + 1, n,
                        "none", NoTicket)
    /\ UNCHANGED <<store, ticketsFile, histFile, histDb, dbUp, clock, histOk, reqs>>

(***************************************************************************)
(* GET /:id                                                                *)
(***************************************************************************)
\* the object built from a Record Store document
StoreTicket(doc) ==
    [ticket_id |-> doc.ticket_id,
     category |-> doc.category,
     building |-> doc.building,
     description |-> doc.description,
     status |-> doc.status,
     assigned_to |-> Join(doc.assigned_to, SEMI),
     sla_breach |-> YesNo(doc.sla_breach)]

\* lines.map(match).find(c => unquote(c[0]) === ticketId): index, 0 if none
FindRow(rows, id) ==
    LET hits == {i \in 1..Len(rows) : RowHasId(rows[i], id)}
    IN  IF hits = {} THEN 0 ELSE CHOOSE i \in hits : \A j \in hits : i <= j

\* a variant of GetResponse without the fallback on absence: a store that
\* answers and does not hold the id gives 404
GetResponseStoreOnly(st, file, id, up, at) ==
    LET doc == FindOne(st, id)
        lines == ReadLines(file)
        header == ParseHeader(lines[1])
        rows == Tail(lines)
        row == FindRow(rows, id)
    IN  IF up /\ doc # 0
        THEN Response("get", id, NoTicket, up, at, 200, "store",
                      StoreTicket(st[doc]))
        ELSE IF ~up /\ row # 0
        THEN Response("get", id, NoTicket, up, at, 200, "csv",
                      RowObject(header, matchCols(rows[row])))
        ELSE Response("get", id, NoTicket, up, at, 404, "none", NoTicket)

\* the response of GET /:id: Record Store first, CSV Mirror on failure or
\* absence, 404 when the mirror has no row either
GetResponse(st, file, id, up, at) ==
    LET doc == FindOne(st, id)
        lines == ReadLines(file)
        header == ParseHeader(lines[1])
        rows == Tail(lines)
        row == FindRow(rows, id)
    IN  IF up /\ doc # 0
        THEN Response("get", id, NoTicket, up, at, 200, "store",
                      StoreTicket(st[doc]))
        ELSE IF row # 0
        THEN Response("get", id, NoTicket, up, at, 200, "csv",
                      RowObject(header, matchCols(rows[row])))
        ELSE Response("get", id, NoTicket, up, at, 404, "none", NoTicket)

GetTicket(id) ==
    /\ steps' = steps + 1
    /\ last' = GetResponse(store, ticketsFile, id, dbUp, steps + 1)
    /\ UNCHANGED <<store, ticketsFile, histFile, histDb, dbUp, clock, histOk, reqs>>

(***************************************************************************)
(* GET /                                                                   *)
(***************************************************************************)
\* Ticket.find().lean().sort({ createdAt: -1 }): the newest document first
RECURSIVE NewestFirst(_)
NewestFirst(st) ==
    IF st = << >> THEN << >> ELSE <<Last(st)>> \o NewestFirst(Front(st))

\* lines.map(line => { ... header.forEach((h, i) => obj[h] = ...) ... })
ParseRows(file) ==
    LET lines == ReadLines(file)
        header == ParseHeader(lines[1])
        rows == Tail(lines)
    IN  [i \in 1..Len(rows) |-> RowObject(header, matchCols(rows[i]))]

\* the response of GET /: the documents of the Record Store when it answers
\* and holds any, the rows of the CSV Mirror otherwise
ListResponse(st, file, up, at) ==
    IF up /\ st # << >>
    THEN [Response("list", Empty, NoTicket, up, at, 200, "store", NoTicket)
             EXCEPT !.list = LET docs == NewestFirst(st)
                              IN  [i \in 1..Len(docs) |-> StoreTicket(docs[i])]]
    ELSE [Response("list", Empty, NoTicket, up, at, 200, "csv", NoTicket)
             EXCEPT !.list = ParseRows(file)]

ListTickets ==
    /\ steps' = steps + 1
    /\ last' = ListResponse(store, ticketsFile, dbUp, steps + 1)
    /\ UNCHANGED <<store, ticketsFile, histFile, histDb, dbUp, clock, histOk, reqs>>

(***************************************************************************)
(* GET /:id/history                                                        *)
(***************************************************************************)
\* position of a timestamp in the order of time
DayIndex(ts) == CHOOSE d \in 1..Len(Days) : Days[d] = ts

\* .sort({ timestamp: 1 }): ascending, entries of one instant in the order
\* of insertion
RECURSIVE SortFrom(_, _)
SortFrom(es, d) ==
    IF d > Len(Days) THEN << >>
    ELSE SelectSeq(es, LAMBDA e : DayIndex(e.timestamp) = d) \o SortFrom(es, d + 1)

SortByTimestamp(es) == SortFrom(es, 1)

\* a variant of HistoryResponse without the filter on ticket_id
HistoryResponseAll(hdb, hfile, id, up, at) ==
    IF up /\ hdb # << >>
    THEN [Response("history", id, NoTicket, up, at, 200, "store", NoTicket)
             EXCEPT !.entries = SortByTimestamp(hdb)]
    ELSE [Response("history", id, NoTicket, up, at, 200, "csv", NoTicket)
             EXCEPT !.entries = hfile]

\* the response of GET /:id/history: the TicketHistory documents of the
\* id when the find answers with at least one, else the lines of
\* ticket_history.csv whose ticket_id is the id
HistoryResponse(hdb, hfile, id, up, at) ==
    LET found == SortByTimestamp(SelectSeq(hdb, LAMBDA e : e.ticket_id = id))
    IN  IF up /\ found # << >>
        THEN [Response("history", id, NoTicket, up, at, 200, "store", NoTicket)
                 EXCEPT !.entries = found]
        ELSE [Response("history", id, NoTicket, up, at, 200, "csv", NoTicket)
                 EXCEPT !.entries = SelectSeq(hfile, LAMBDA e : e.ticket_id = id)]

GetHistory(id) ==
    /\ steps' = steps + 1
    /\ last' = HistoryResponse(histDb, histFile, id, dbUp, steps + 1)
    /\ UNCHANGED <<store, ticketsFile, histFile, histDb, dbUp, clock, histOk, reqs>>

(***************************************************************************)
(* GET /stats                                                              *)
(***************************************************************************)
\* $year, $month and $dayOfMonth of a stored date
DateParts(ts) ==
    CASE ts = "20240128" -> [year |-> 2024, month |-> 1, day |-> 28]
      [] ts = "20241230" -> [year |-> 2024, month |-> 12, day |-> 30]
      [] ts = "20250101" -> [year |-> 2025, month |-> 1, day |-> 1]
      [] ts = "20250105" -> [year |-> 2025, month |-> 1, day |-> 5]
      [] ts = "20250106" -> [year |-> 2025, month |-> 1, day |-> 6]
      [] ts = "20250108" -> [year |-> 2025, month |-> 1, day |-> 8]
      [] OTHER -> [year |-> 2024, month |-> 2, day |-> 1]

\* the day of the year of a date of January, February or December 2024
DayOfYear(p) ==
    (CASE p.month = 1 -> 0 [] p.month = 2 -> 31 [] OTHER -> 335) + p.day

\* the match object built from the query: month, else week, else year,
\* else none.  A week runs from new Date(yr, 0, (weekNum - 1) * 7 + 1) up to
\* new Date(yr, 0, weekNum * 7 + 1), compared here by the day
Match(doc, f) ==
    LET p == DateParts(doc.createdAt)
    IN  CASE f.kind = "month" -> p.year = f.year /\ p.month = f.month
          [] f.kind = "week" ->
                 /\ p.year = f.year
                 /\ DayOfYear(p) >= (f.week - 1) * 7 + 1
                 /\ DayOfYear(p) < f.week * 7 + 1
          [] f.kind = "year" -> p.year = f.year
          [] OTHER -> TRUE

\* the documents a pipeline or a count starting with match sees
Matching(st, f) == SelectSeq(st, LAMBDA d : Match(d, f))

\* { $group: { _id: '$k', count: { $sum: 1 } } }: one group per value
GroupBy(docs, k) ==
    {[_id |-> v, count |-> Cardinality({i \in 1..Len(docs) : docs[i][k] = v})] :
        v \in {docs[i][k] : i \in 1..Len(docs)}}

\* the orders in which the store can return the groups: $group fixes none
Orders(S) ==
    {o \in [1..Cardinality(S) -> S] : \A x \in S : \E i \in DOMAIN o : o[i] = x}

\* i._id || placeholder
OrElse(v, placeholder) == IF v = Empty THEN placeholder ELSE v

\* $ifNull: ["$closedAt", "$createdAt"]
ClosedDate(doc) ==
    IF "closedAt" \in DOMAIN doc /\ doc["closedAt"] # Null
    THEN doc["closedAt"] ELSE doc.createdAt

\* a per-day pipeline over the dates of its documents: the $group on year,
\* month and day and the $sort on _id.year, _id.month, _id.day
RECURSIVE PerDayFrom(_, _)
PerDayFrom(dates, d) ==
    IF d > Len(Days) THEN << >>
    ELSE LET n == Cardinality({i \in 1..Len(dates) : dates[i] = Days[d]})
         IN  (IF n = 0 THEN << >> ELSE <<[_id |-> DateParts(Days[d]), n |-> n]>>)
                 \o PerDayFrom(dates, d + 1)

ticketsOpenedOverTime(st, f) ==
    LET docs == Matching(st, f)
    IN  PerDayFrom([i \in 1..Len(docs) |-> docs[i].createdAt], 1)

\* a variant of ticketsClosedOverTime whose match lacks status: "Closed"
ticketsClosedOverTimeAnyStatus(st, f) ==
    LET docs == Matching(st, f)
    IN  PerDayFrom([i \in 1..Len(docs) |-> ClosedDate(docs[i])], 1)

\* the match of the closed pipeline is { ...match, status: "Closed" }
ticketsClosedOverTime(st, f) ==
    LET docs == SelectSeq(Matching(st, f), LAMBDA d : d.status = <<"Closed">>)
    IN  PerDayFrom([i \in 1..Len(docs) |-> ClosedDate(docs[i])], 1)

\* `${i._id.year}-${i._id.month}-${i._id.day}`
DateKey(id) ==
    Join(<< <<ToString(id.year)>>, <<ToString(id.month)>>,
            <<ToString(id.day)>> >>, "-")

\* what new Set([...]) keeps of a list: the first occurrence of each element
RECURSIVE Distinct(_)
Distinct(keys) ==
    IF keys = << >> THEN << >>
    ELSE LET front == Distinct(Front(keys))
         IN  IF \E i \in 1..Len(front) : front[i] = Last(keys)
             THEN front ELSE Append(front, Last(keys))

\* a variant of allDates that keeps every key of both lists
allDatesConcat(opened, closed) ==
    [i \in 1..Len(opened) |-> DateKey(opened[i]._id)]
        \o [i \in 1..Len(closed) |-> DateKey(closed[i]._id)]

\* allDates = new Set([...opened keys, ...closed keys])
allDates(opened, closed) ==
    Distinct([i \in 1..Len(opened) |-> DateKey(opened[i]._id)]
                 \o [i \in 1..Len(closed) |-> DateKey(closed[i]._id)])

\* String(m).padStart(2, '0')
padStart2(s) ==
    IF s \in {"0", "1", "2", "3", "4", "5", "6", "7", "8", "9"}
    THEN "0" \o s ELSE s

\* list.find(i => i._id.year == y && i._id.month == m && i._id.day == d)?.n || 0
FindCount(list, ymd) ==
    LET hits == SelectSeq(list, LAMBDA i :
                    /\ ToString(i._id.year) = ymd[1][1]
                    /\ ToString(i._id.month) = ymd[2][1]
                    /\ ToString(i._id.day) = ymd[3][1])
    IN  IF hits = << >> THEN 0 ELSE hits[1].n

\* the entry pushed for one dateKey
MergedEntry(dateKey, opened, closed) ==
    LET ymd == Split(dateKey, "-")
    IN  [date |-> ymd[1][1] \o "-" \o padStart2(ymd[2][1]) \o "-"
                     \o padStart2(ymd[3][1]),
         opened |-> FindCount(opened, ymd),
         closed |-> FindCount(closed, ymd)]

\* new Date(date) of a date string, as a position in the order of time
DateValue(date) ==
    CHOOSE d \in 1..Len(Days) :
        LET p == DateParts(Days[d])
        IN  date = ToString(p.year) \o "-" \o padStart2(ToString(p.month))
                       \o "-" \o padStart2(ToString(p.day))

\* mergedOverTime.sort((a, b) => new Date(a.date) - new Date(b.date))
RECURSIVE SortByDateFrom(_, _)
SortByDateFrom(list, d) ==
    IF d > Len(Days) THEN << >>
    ELSE SelectSeq(list, LAMBDA e : DateValue(e.date) = d)
             \o SortByDateFrom(list, d + 1)

mergedOverTime(opened, closed) ==
    LET keys == allDates(opened, closed)
    IN  SortByDateFrom([i \in 1..Len(keys) |->
                           MergedEntry(keys[i], opened, closed)], 1)

\* the value of the path slaBreached that a document presents to a filter:
\* ticketSchema has the path sla_breach and no path slaBreached, so no
\* document carries one.  With Mongoose's default strictQuery: false the
\* filter reaches the store as written
SlaBreachedOf(doc) ==
    IF "slaBreached" \in DOMAIN doc THEN doc["slaBreached"] ELSE "null"

\* the $or list of the breached count, each value as written
BreachedValues == {"true", "Yes", "yes", "checked", "1"}

\* a variant of OnTimeValues without { slaBreached: null }
OnTimeValuesNoNull == {"false", "No", "no", "unchecked", "0"}

\* the $or list of the on-time count; { slaBreached: null } also matches a
\* document without the field
OnTimeValues == {"false", "No", "no", "unchecked", "0", "null"}

\* Ticket.countDocuments({ ...match, $or: [{ slaBreached: v }, ...] })
CountSla(st, f, values) ==
    Len(SelectSeq(Matching(st, f), LAMBDA d : SlaBreachedOf(d) \in values))

\* a variant of totalTickets that counts without the match
totalTicketsUnfiltered(st, f) == Len(st)

\* Ticket.countDocuments(match)
totalTickets(st, f) == Len(Matching(st, f))

\* a variant of slaCompliance without the factor 100
slaComplianceFraction(onTimeCount, totalCount) ==
    LET total == IF totalCount = 0 THEN 1 ELSE totalCount
        tenths == (onTimeCount * 20 + total) \div (2 * total)
    IN  ToString(tenths \div 10) \o "." \o ToString(tenths % 10)

\* total = totalTickets || 1 and
\* slaCompliance = ((slaOnTimeCount / total) * 100).toFixed(1): the decimal
\* string of the nearest tenth
slaCompliance(onTimeCount, totalCount) ==
    LET total == IF totalCount = 0 THEN 1 ELSE totalCount
        tenths == (onTimeCount * 2000 + total) \div (2 * total)
    IN  ToString(tenths \div 10) \o "." \o ToString(tenths % 10)

\* groups.reduce((a, b) => (a.count > b.count ? a : b), { _id: 'N/A', count: 0 })
RECURSIVE TopGroup(_)
TopGroup(groups) ==
    IF groups = << >> THEN [_id |-> <<"N/A">>, count |-> 0]
    ELSE LET a == TopGroup(Front(groups))
             b == Last(groups)
         IN  IF a.count > b.count THEN a ELSE b

\* the eight calls handed to Promise.all
SubQueries ==
    {"byStatus", "byCategory", "byPriority", "opened", "closed", "breached",
     "onTime", "total"}

\* the results a sub-query can deliver: the store fixes no order of groups;
\* no request body of the model carries a priority, so that every ticket
\* has the schema's default priority ''
SubQueryResults(q, st, f) ==
    CASE q = "byStatus" -> Orders(GroupBy(Matching(st, f), "status"))
      [] q = "byCategory" -> Orders(GroupBy(Matching(st, f), "category"))
      [] q = "byPriority" ->
             {IF Matching(st, f) = << >> THEN << >>
              ELSE <<[_id |-> Empty, count |-> Len(Matching(st, f))]>>}
      [] q = "opened" -> {ticketsOpenedOverTime(st, f)}
      [] q = "closed" -> {ticketsClosedOverTime(st, f)}
      [] q = "breached" -> {CountSla(st, f, BreachedValues)}
      [] q = "onTime" -> {CountSla(st, f, OnTimeValues)}
      [] OTHER -> {totalTickets(st, f)}

\* the eight names before any sub-query has delivered
NoResults ==
    [byStatus |-> << >>, byCategory |-> << >>, byPriority |-> << >>,
     opened |-> << >>, closed |-> << >>, breached |-> 0, onTime |-> 0,
     total |-> 0]

\* the body of res.json, assembled from the results of the sub-queries; of
\* the analytics the model keeps topCategory
Assemble(r) ==
    [totalTickets |-> r.total,
     byStatus |-> [i \in DOMAIN r.byStatus |->
                      [status |-> OrElse(r.byStatus[i]._id, <<"Unknown">>),
                       count |-> r.byStatus[i].count]],
     byCategory |-> [i \in DOMAIN r.byCategory |->
                      [category |-> OrElse(r.byCategory[i]._id,
                                           <<"Uncategorized">>),
                       count |-> r.byCategory[i].count]],
     ticketsOverTime |-> mergedOverTime(r.opened, r.closed),
     breached |-> r.breached,
     onTime |-> r.onTime,
     complianceRate |-> slaCompliance(r.onTime, r.total),
     topCategory |-> TopGroup(r.byCategory)._id]

\* the body of a request whose sub-queries all see the store st, given the
\* orders in which the groups came back
StatsBody(st, f, statusGroups, categoryGroups) ==
    Assemble([q \in SubQueries |->
                 CASE q = "byStatus" -> statusGroups
                   [] q = "byCategory" -> categoryGroups
                   [] OTHER -> CHOOSE r \in SubQueryResults(q, st, f) : TRUE])

\* the handler: with the store down a sub-query throws and the catch
\* answers 500
GetStats(f) ==
    /\ steps' = steps + 1
    /\ IF dbUp
       THEN \E sg \in Orders(GroupBy(Matching(store, f), "status")),
               cg \in Orders(GroupBy(Matching(store, f), "category")) :
                last' = [Response("stats", Empty, f, TRUE, steps + 1, 200,
                                  "store", NoTicket)
                            EXCEPT !.stats = StatsBody(store, f, sg, cg)]
       ELSE last' = Response("stats", Empty, f, FALSE, steps + 1, 500,
                             "none", NoTicket)
    /\ UNCHANGED <<store, ticketsFile, histFile, histDb, dbUp, clock, histOk, reqs>>

(***************************************************************************)
(* GET /stats step by step: the handler hands the eight sub-queries to     *)
(* Promise.all, they settle in any order, and the handler goes on when     *)
(* Promise.all has settled.                                                *)
(***************************************************************************)
\* the handler reaches Promise.all
StatsStart(f) ==
    /\ reqs = << >>
    /\ reqs' = <<[op |-> "stats", f |-> f, pending |-> SubQueries,
                  results |-> NoResults, failed |-> FALSE]>>
    /\ steps' = steps + 1
    /\ UNCHANGED <<store, ticketsFile, histFile, histDb, dbUp, clock, histOk, last>>

\* one sub-query settles: fulfilled with its result, or rejected when the
\* store does not answer
SubQuerySettles ==
    /\ reqs # << >>
    /\ reqs[1].op = "stats"
    /\ \E q \in reqs[1].pending :
           IF dbUp
           THEN \E r \in SubQueryResults(q, store, reqs[1].f) :
                    reqs' = <<[reqs[1] EXCEPT !.pending = @ \ {q},
                                              !.results[q] = r]>>
           ELSE reqs' = <<[reqs[1] EXCEPT !.pending = @ \ {q},
                                          !.failed = TRUE]>>
    /\ UNCHANGED <<store, ticketsFile, histFile, histDb, dbUp, clock, steps,
                   histOk, last>>

\* a variant of Settled that does not wait
SettledAtOnce(r) == TRUE

\* await Promise.all([...]): rejected with the first rejection, fulfilled
\* when all eight are fulfilled
Settled(r) == r.failed \/ r.pending = {}

\* the rest of the handler: the catch answers 500, else the body is
\* assembled and sent
StatsRespond ==
    /\ reqs # << >>
    /\ reqs[1].op = "stats"
    /\ Settled(reqs[1])
    /\ last' = IF reqs[1].failed
               THEN Response("stats", Empty, reqs[1].f, FALSE, steps, 500,
                             "none", NoTicket)
               ELSE [Response("stats", Empty, reqs[1].f, TRUE, steps, 200,
                              "store", NoTicket)
                        EXCEPT !.stats = Assemble(reqs[1].results)]
    /\ reqs' = << >>
    /\ UNCHANGED <<store, ticketsFile, histFile, histDb, dbUp, clock, steps,
                   histOk>>

(***************************************************************************)
(* PUT /:id                                                                *)
(***************************************************************************)
\* body.k ?? doc.k
Coalesce(body, doc, k) == IF Has(body, k) THEN body[k] ELSE doc[k]

\* updateObj, with the closedAt logic
UpdateObj(doc, body, day) ==
    LET obj == [category |-> Coalesce(body, doc, "category"),
                building |-> Coalesce(body, doc, "building"),
                description |-> Coalesce(body, doc, "description"),
                status |-> Coalesce(body, doc, "status"),
                assigned_to |-> Coalesce(body, doc, "assigned_to"),
                sla_breach |-> Coalesce(body, doc, "sla_breach")]
        newStatus == Coalesce(body, doc, "status")
        oldStatus == doc.status
    IN  IF newStatus = <<"Closed">> /\ oldStatus # <<"Closed">>
        THEN [closedAt |-> Days[day]] @@ obj
        ELSE IF oldStatus = <<"Closed">> /\ newStatus # <<"Closed">>
        THEN [closedAt |-> Null] @@ obj
        ELSE obj

\* the paths of an update that Mongoose casts and sends: with the schema's
\* default strict mode a $set key that is no path of the schema is dropped
CastUpdate(updateObj) == DOMAIN updateObj \cap SchemaPaths

\* Ticket.updateOne({ ticket_id: id }, { $set: updateObj })
UpdateOne(doc, updateObj) ==
    [k \in DOMAIN doc \cup CastUpdate(updateObj) |->
        IF k \in CastUpdate(updateObj) THEN updateObj[k] ELSE doc[k]]

\* the Record Store after the try block of PUT /:id
UpdateStore(st, id, body, day, up) ==
    LET doc == FindOne(st, id)
    IN  IF up /\ doc # 0
        THEN [st EXCEPT ![doc] = UpdateOne(st[doc], UpdateObj(st[doc], body, day))]
        ELSE st

\* newRowObj[h] for { ...old, ...body, assigned_to, post_review, sla_breach }
NewRowValue(old, body, k) ==
    LET oldv == IF k \in DOMAIN old THEN old[k] ELSE Empty
    IN  IF k = "assigned_to"
        THEN (IF Has(body, k) THEN Join(body[k], SEMI) ELSE oldv)
        ELSE IF k = "sla_breach"
        THEN (IF Has(body, k) THEN YesNo(body[k]) ELSE oldv)
        ELSE IF Has(body, k) THEN body[k] ELSE oldv

\* header.map(h => csvEscape(newRowObj[h] || '')).join(',')
MergeRow(header, cols, body) ==
    LET old == RowObject(header, cols)
    IN  Join([i \in 1..Len(header) |->
                 csvEscape(NewRowValue(old, body, Key(header[i])))], COMMA)

\* the file written back by PUT /:id
UpdateFile(file, id, body) ==
    LET lines == ReadLines(file)
        header == ParseHeader(lines[1])
        rows == Tail(lines)
        updatedLines == [i \in 1..Len(rows) |->
                            IF RowHasId(rows[i], id)
                            THEN MergeRow(header, matchCols(rows[i]), body)
                            ELSE rows[i]]
        headerLine == Join([i \in 1..Len(header) |-> csvEscape(header[i])],
                           COMMA)
    IN  Join(<<headerLine>> \o updatedLines, NL) \o <<NL>>

\* a variant of the handler that gives up when the Record Store does not
\* answer: no CSV write, no history, status 500
UpdateTicketStoreOnly(id, body) ==
    LET found == FindRow(Tail(ReadLines(ticketsFile)), id) # 0
        entry == HistoryEntry(id, clock, "update", body,
                              StrOr(body, "reported_by"))
    IN  /\ steps' = steps + 1
        /\ store' = UpdateStore(store, id, body, clock, dbUp)
        /\ IF found /\ dbUp
           THEN /\ ticketsFile' = UpdateFile(ticketsFile, id, body)
                /\ histFile' = Append(histFile, entry)
                /\ histDb' = Append(histDb, entry)
                /\ last' = Response("update", id, body, dbUp, steps + 1, 200, "none",
                                    NoTicket)
           ELSE /\ UNCHANGED <<ticketsFile, histFile, histDb>>
                /\ last' = Response("update", id, body, dbUp, steps + 1,
                                    IF dbUp THEN 404 ELSE 500, "none", NoTicket)
        /\ UNCHANGED <<dbUp, clock, histOk, reqs>>

UpdateTicket(id, body) ==
    LET found == FindRow(Tail(ReadLines(ticketsFile)), id) # 0
        entry == HistoryEntry(id, clock, "update", body,
                              StrOr(body, "reported_by"))
    IN  /\ steps' = steps + 1
        /\ store' = UpdateStore(store, id, body, clock, dbUp)
        /\ IF found
           THEN /\ ticketsFile' = UpdateFile(ticketsFile, id, body)
                /\ histFile' = IF histOk THEN appendHistory(histFile, entry)
                               ELSE histFile
                /\ histDb' = IF histOk /\ dbUp THEN appendHistory(histDb, entry)
                             ELSE histDb
                /\ last' = Response("update", id, body, dbUp, steps + 1,
                                    IF histOk THEN 200 ELSE 500, "none",
                                    NoTicket)
           ELSE /\ UNCHANGED <<ticketsFile, histFile, histDb>>
                /\ last' = Response("update", id, body, dbUp, steps + 1, 404, "none",
                                    NoTicket)
        /\ UNCHANGED <<dbUp, clock, histOk, reqs>>

(***************************************************************************)
(* DELETE /:id                                                             *)
(***************************************************************************)
\* a variant of DeleteOne that removes nothing
DeleteOneNoop(st, id) == st

\* Ticket.deleteOne({ ticket_id: id })
DeleteOne(st, id) ==
    LET doc == FindOne(st, id)
    IN  IF doc # 0
        THEN SubSeq(st, 1, doc - 1) \o SubSeq(st, doc + 1, Len(st))
        ELSE st

\* lines.filter(line => unquote(match(line)[0]) !== id)
Remaining(rows, id) == SelectSeq(rows, LAMBDA line : ~RowHasId(line, id))

\* the file written back by DELETE /:id
DeleteFile(file, id) ==
    LET lines == ReadLines(file)
        header == ParseHeader(lines[1])
        headerLine == Join([i \in 1..Len(header) |-> <<Q>> \o header[i] \o <<Q>>],
                           COMMA)
    IN  Join(<<headerLine>> \o Remaining(Tail(lines), id), NL) \o <<NL>>

DeleteTicket(id) ==
    LET rows == Tail(ReadLines(ticketsFile))
        found == Len(Remaining(rows, id)) # Len(rows)
        entry == HistoryEntry(id, clock, "delete", NoTicket, Empty)
    IN  /\ steps' = steps + 1
        /\ store' = IF dbUp THEN DeleteOne(store, id) ELSE store
        /\ IF found
           THEN /\ ticketsFile' = DeleteFile(ticketsFile, id)
                /\ histFile' = IF histOk THEN appendHistory(histFile, entry)
                               ELSE histFile
                /\ histDb' = IF histOk /\ dbUp THEN appendHistory(histDb, entry)
                             ELSE histDb
                /\ last' = Response("delete", id, NoTicket, dbUp, steps + 1,
                                    IF histOk THEN 200 ELSE 500, "none",
                                    NoTicket)
           ELSE /\ UNCHANGED <<ticketsFile, histFile, histDb>>
                /\ last' = Response("delete", id, NoTicket, dbUp, steps + 1, 404, "none",
                                    NoTicket)
        /\ UNCHANGED <<dbUp, clock, histOk, reqs>>

(***************************************************************************)
(* The write handlers step by step.  A handler runs without interruption   *)
(* from one await to the next: the calls of fs are synchronous, the calls  *)
(* of the Record Store are awaited, and between the steps of one request   *)
(* the steps of other requests can run.  A request of reqs has op, id and  *)
(* body, pc = the step it is to take next, doc = the document its findOne  *)
(* returned, seen = tickets.csv as it was when the handler was entered,    *)
(* storeTried and csvDone = the Record Store write has been attempted and  *)
(* the tickets.csv write has been made, code = its response, racing = the  *)
(* requests in progress that had not yet written tickets.csv when the      *)
(* handler was entered.                                                    *)
(***************************************************************************)
Request(op, id, body, pc) ==
    [op |-> op, id |-> id, body |-> body, pc |-> pc, doc |-> NoTicket,
     seen |-> ticketsFile, storeTried |-> FALSE, csvDone |-> FALSE, code |-> 0,
     racing |-> {k \in DOMAIN reqs : reqs[k].pc # "done" /\ ~reqs[k].csvDone}]

\* a handler is entered
StartRequest(op, id, body) ==
    /\ reqs' = Append(reqs, Request(op, id, body,
                                    CASE op = "create" -> "id"
                                      [] op = "update" -> "find"
                                      [] op = "get" -> "findOne"
                                      [] OTHER -> "deleteOne"))
    /\ steps' = steps + 1
    /\ UNCHANGED <<store, ticketsFile, histFile, histDb, dbUp, clock, histOk, last>>

\* a variant of Answer that sends nothing unless the request succeeded
AnswerOnSuccess(i, r, code) ==
    /\ reqs' = [reqs EXCEPT ![i] =
                   [r EXCEPT !.pc = IF code = 200 THEN "done" ELSE "lost",
                             !.code = IF code = 200 THEN code ELSE 0,
                             !.doc = NoTicket, !.seen = << >>]]
    /\ last' = IF code = 200
               THEN Response(r.op, r.id, r.body, dbUp, steps, code, "none", NoTicket)
               ELSE last

\* res.json / res.status(...).json of request i; the handler's local values
\* are gone
Answer(i, r, code) ==
    /\ reqs' = [reqs EXCEPT ![i] = [r EXCEPT !.pc = "done", !.code = code,
                                             !.doc = NoTicket, !.seen = << >>]]
    /\ last' = Response(r.op, r.id, r.body, dbUp, steps, code, "none", NoTicket)

\* POST: body.ticket_id || await generateTicketId(...)
PostId(i) ==
    /\ reqs[i].pc = "id"
    /\ reqs' = [reqs EXCEPT ![i].pc = "csv",
                            ![i].id = CreateId(store, ticketsFile, reqs[i].body,
                                               clock, dbUp)]
    /\ UNCHANGED <<store, ticketsFile, histFile, histDb, dbUp, clock, steps,
                   histOk, last>>

\* POST: fs.appendFileSync(TICKETS_FILE, row), then save() is called
PostCsv(i) ==
    /\ reqs[i].op = "create"
    /\ reqs[i].pc = "csv"
    /\ ticketsFile' = ticketsFile \o CreateRow(reqs[i].id, reqs[i].body)
    /\ reqs' = [reqs EXCEPT ![i].pc = "save", ![i].csvDone = TRUE]
    /\ UNCHANGED <<store, histFile, histDb, dbUp, clock, steps, histOk, last>>

\* POST: ticketDoc.save() settles, the history line is appended and
\* TicketHistory.create is called
PostSave(i) ==
    LET r == reqs[i]
        doc == TicketDoc(r.id, r.body, clock)
        entry == HistoryEntry(r.id, clock, "create", r.body,
                              StrOr(r.body, "reported_by"))
        tried == [r EXCEPT !.storeTried = TRUE]
    IN  /\ r.pc = "save"
        /\ store' = IF dbUp /\ SaveAccepted(store, doc)
                    THEN Append(store, doc) ELSE store
        /\ IF histOk
           THEN /\ histFile' = appendHistory(histFile, entry)
                /\ reqs' = [reqs EXCEPT ![i] = [tried EXCEPT !.pc = "histDb"]]
                /\ UNCHANGED last
           ELSE /\ Answer(i, tried, 500)
                /\ UNCHANGED histFile
        /\ UNCHANGED <<ticketsFile, histDb, dbUp, clock, steps, histOk>>

\* PUT: Ticket.findOne({ ticket_id: id }) settles
PutFind(i) ==
    LET r == reqs[i]
        k == FindOne(store, r.id)
    IN  /\ r.pc = "find"
        /\ reqs' = [reqs EXCEPT ![i] =
                       IF dbUp /\ k # 0
                       THEN [r EXCEPT !.pc = "updateOne", !.doc = store[k]]
                       ELSE [r EXCEPT !.pc = "csv", !.storeTried = TRUE]]
        /\ UNCHANGED <<store, ticketsFile, histFile, histDb, dbUp, clock, steps,
                       histOk, last>>

\* Ticket.updateOne({ ticket_id: id }, { $set: updateObj }) on the store as
\* it is now, with the updateObj built from the document that was found
SetOne(st, id, updateObj) ==
    LET k == FindOne(st, id)
    IN  IF k # 0 THEN [st EXCEPT ![k] = UpdateOne(st[k], updateObj)] ELSE st

\* PUT: updateOne settles
PutUpdateOne(i) ==
    LET r == reqs[i]
    IN  /\ r.pc = "updateOne"
        /\ store' = IF dbUp THEN SetOne(store, r.id, UpdateObj(r.doc, r.body, clock))
                    ELSE store
        /\ reqs' = [reqs EXCEPT ![i].pc = "csv", ![i].storeTried = TRUE]
        /\ UNCHANGED <<ticketsFile, histFile, histDb, dbUp, clock, steps,
                       histOk, last>>

\* DELETE: Ticket.deleteOne({ ticket_id: id }) settles
DeleteStore(i) ==
    LET r == reqs[i]
    IN  /\ r.pc = "deleteOne"
        /\ store' = IF dbUp THEN DeleteOne(store, r.id) ELSE store
        /\ reqs' = [reqs EXCEPT ![i].pc = "csv", ![i].storeTried = TRUE]
        /\ UNCHANGED <<ticketsFile, histFile, histDb, dbUp, clock, steps,
                       histOk, last>>

\* a variant of ReadTicketsFile that returns the content a read made when
\* the handler was entered would have returned
ReadTicketsFileEarly(r, file) == r.seen

\* fs.readFileSync(TICKETS_FILE, 'utf8') at the head of the rewrite
ReadTicketsFile(r, file) == file

\* PUT and DELETE: the rewrite of tickets.csv from readFileSync to
\* writeFileSync, the history line, and the call of TicketHistory.create
RewriteCsv(i) ==
    LET r == reqs[i]
        file == ReadTicketsFile(r, ticketsFile)
        rows == Tail(ReadLines(file))
        found == IF r.op = "update" THEN FindRow(rows, r.id) # 0
                 ELSE Len(Remaining(rows, r.id)) # Len(rows)
        entry == IF r.op = "update"
                 THEN HistoryEntry(r.id, clock, "update", r.body,
                                   StrOr(r.body, "reported_by"))
                 ELSE HistoryEntry(r.id, clock, "delete", NoTicket, Empty)
        written == [r EXCEPT !.csvDone = TRUE]
    IN  /\ r.op \in {"update", "delete"}
        /\ r.pc = "csv"
        /\ IF ~found
           THEN /\ Answer(i, r, 404)
                /\ UNCHANGED <<ticketsFile, histFile>>
           ELSE /\ ticketsFile' = IF r.op = "update"
                                  THEN UpdateFile(file, r.id, r.body)
                                  ELSE DeleteFile(file, r.id)
                /\ IF histOk
                   THEN /\ histFile' = appendHistory(histFile, entry)
                        /\ reqs' = [reqs EXCEPT ![i] =
                                       [written EXCEPT !.pc = "histDb"]]
                        /\ UNCHANGED last
                   ELSE /\ Answer(i, written, 500)
                        /\ UNCHANGED histFile
        /\ UNCHANGED <<store, histDb, dbUp, clock, steps, histOk>>

\* TicketHistory.create settles and the handler answers
HistoryDb(i) ==
    LET r == reqs[i]
        entry == IF r.op = "delete"
                 THEN HistoryEntry(r.id, clock, "delete", NoTicket, Empty)
                 ELSE HistoryEntry(r.id, clock, r.op, r.body,
                                   StrOr(r.body, "reported_by"))
    IN  /\ r.pc = "histDb"
        /\ histDb' = IF dbUp THEN appendHistory(histDb, entry) ELSE histDb
        /\ Answer(i, r, 200)
        /\ UNCHANGED <<store, ticketsFile, histFile, dbUp, clock, steps, histOk>>

\* GET /:id: Ticket.findOne settles and the handler answers from the
\* document, from the mirror's row, or with 404
ReadRespond(i) ==
    LET r == reqs[i]
    IN  /\ r.op = "get"
        /\ r.pc = "findOne"
        /\ Answer(i, r, GetResponse(store, ticketsFile, r.id, dbUp, steps).code)
        /\ UNCHANGED <<store, ticketsFile, histFile, histDb, dbUp, clock, steps,
                       histOk>>

(***************************************************************************)
(* Environment: the date changes, the Record Store goes down and comes up  *)
(***************************************************************************)
Midnight ==
    /\ steps < MaxSteps
    /\ clock < Len(Days)
    /\ clock' = clock + 1
    /\ steps' = steps + 1
    /\ UNCHANGED <<store, ticketsFile, histFile, histDb, dbUp, histOk, last, reqs>>

StoreOutage ==
    /\ steps < MaxSteps
    /\ dbUp
    /\ dbUp' = FALSE
    /\ steps' = steps + 1
    /\ UNCHANGED <<store, ticketsFile, histFile, histDb, clock, histOk, last, reqs>>

StoreRecovery ==
    /\ steps < MaxSteps
    /\ ~dbUp
    /\ dbUp' = TRUE
    /\ steps' = steps + 1
    /\ UNCHANGED <<store, ticketsFile, histFile, histDb, clock, histOk, last, reqs>>

\* the history file becomes unwritable, and writable again
HistoryFileOutage ==
    /\ steps < MaxSteps
    /\ histOk
    /\ histOk' = FALSE
    /\ steps' = steps + 1
    /\ UNCHANGED <<store, ticketsFile, histFile, histDb, dbUp, clock, last, reqs>>

HistoryFileRecovery ==
    /\ steps < MaxSteps
    /\ ~histOk
    /\ histOk' = TRUE
    /\ steps' = steps + 1
    /\ UNCHANGED <<store, ticketsFile, histFile, histDb, dbUp, clock, last, reqs>>

(***************************************************************************)
(* Inputs                                                                  *)
(***************************************************************************)
CreateBodies ==
    { [category |-> <<"Network">>, building |-> <<"LOS1">>,
       description |-> <<"a", COMMA, "b">>,
       assigned_to |-> << <<"e1">>, <<"e2">> >>, sla_breach |-> TRUE],
      [ticket_id |-> <<"X">>, category |-> <<"Server">>,
       building |-> <<"HQ">>, description |-> <<"c", Q>>,
       status |-> <<"Closed">>],
      [category |-> <<"Network">>, building |-> <<"LOS1">>,
       description |-> <<"d">>, status |-> <<"Open">>],
      [category |-> Empty, building |-> <<"LOS2">>],
      [category |-> <<"Server">>, building |-> <<"LOS3">>,
       description |-> <<"g", NL, "h">>] }

UpdateBodies ==
    { [status |-> <<"Closed">>],
      [status |-> <<"Open">>, description |-> <<Q, "f", COMMA>>],
      [ticket_id |-> <<"Y">>, assigned_to |-> << <<"e3">> >>,
       sla_breach |-> FALSE],
      [description |-> <<"i", NL, "j">>] }

\* the ids a request can name: those of the two copies, and X
TargetIds ==
    LET ids == CsvIds(ticketsFile)
    IN  (StoreIds(store) \cup {ids[i] : i \in 1..Len(ids)} \cup {<<"X">>})
            \ {Empty}

(***************************************************************************)
(* Specification                                                           *)
(***************************************************************************)
Init ==
    /\ store = << >>
    /\ ticketsFile = InitialTicketsFile
    /\ histFile = << >>
    /\ histDb = << >>
    /\ dbUp \in BOOLEAN
    /\ clock = 1
    /\ steps = 0
    /\ histOk = TRUE
    /\ last = [op |-> "none", id |-> Empty, body |-> NoTicket, dbUp |-> dbUp,
               at |-> 0, code |-> 0, src |-> "none", ticket |-> NoTicket,
               repeat |-> FALSE, entries |-> << >>, stats |-> NoStats,
               list |-> << >>]
    /\ reqs = << >>

Create ==
    /\ steps < MaxSteps
    /\ \E body \in CreateBodies : CreateTicket(body)

Generate ==
    /\ steps < MaxSteps
    /\ \E body \in {b \in CreateBodies : ~Has(b, "ticket_id")} :
           GenerateId(body["category"], StrOr(body, "building"))

Get ==
    /\ steps < MaxSteps
    /\ \E id \in TargetIds : GetTicket(id)

Update ==
    /\ steps < MaxSteps
    /\ \E id \in TargetIds, body \in UpdateBodies :
           UpdateTicket(id, body)

Delete ==
    /\ steps < MaxSteps
    /\ \E id \in TargetIds : DeleteTicket(id)

History ==
    /\ steps < MaxSteps
    /\ \E id \in TargetIds : GetHistory(id)

Next ==
    \/ Create \/ Generate \/ Get \/ History \/ Update \/ Delete
    \/ Midnight \/ StoreOutage \/ StoreRecovery

Spec == Init /\ [][Next]_vars

\* the same requests with a history file that can fail
NextHistFail == Next \/ HistoryFileOutage \/ HistoryFileRecovery

SpecHistFail == Init /\ [][NextHistFail]_vars

(***************************************************************************)
(* The statistics requests, with the writes that fill the Record Store     *)
(***************************************************************************)
MaxStatsSteps == 4

\* the query strings: none, month=2024-01, week=2024-W05, year=2023
StatsFilters ==
    { [kind |-> "none"],
      [kind |-> "month", year |-> 2024, month |-> 1],
      [kind |-> "week", year |-> 2024, week |-> 5],
      [kind |-> "year", year |-> 2023] }

\* the create bodies the store accepts and the mirror keeps on one line
StatsBodies ==
    {b \in CreateBodies :
        /\ StrOr(b, "category") # Empty
        /\ \A i \in DOMAIN StrOr(b, "description") : b["description"][i] # NL}

StatsCreate ==
    /\ steps < MaxStatsSteps
    /\ \E body \in StatsBodies : CreateTicket(body)

StatsUpdate ==
    /\ steps < MaxStatsSteps
    /\ \E id \in StoreIds(store),
          body \in {b \in UpdateBodies : ~Has(b, "description")} :
           UpdateTicket(id, body)

Stats ==
    /\ steps < MaxStatsSteps
    /\ \E f \in StatsFilters : GetStats(f)

\* the date and the availability of the store change during the first
\* MaxSteps steps
NextStats ==
    \/ StatsCreate \/ StatsUpdate \/ Stats
    \/ Midnight \/ StoreOutage \/ StoreRecovery

SpecStats == Init /\ [][NextStats]_vars

(***************************************************************************)
(* A statistics request step by step, with creates before and after it     *)
(***************************************************************************)
MaxQuerySteps == 3

QueryCreate ==
    /\ reqs = << >>
    /\ steps < MaxQuerySteps
    /\ \E body \in StatsBodies : CreateTicket(body)

QueryStats ==
    /\ steps < MaxQuerySteps
    /\ \E f \in {g \in StatsFilters : g.kind \in {"none", "month"}} : StatsStart(f)

NextQueries ==
    \/ QueryCreate \/ QueryStats \/ SubQuerySettles \/ StatsRespond
    \/ Midnight \/ StoreOutage \/ StoreRecovery

SpecQueries == Init /\ [][NextQueries]_vars

(***************************************************************************)
(* Overlapping write requests: tickets are created one request at a time,  *)
(* then requests are entered and take their steps in any order             *)
(***************************************************************************)
MaxRaceSteps == 3

\* update bodies with disjoint sets of fields
RaceBodies == { [status |-> <<"Closed">>], [description |-> <<"k">>] }

\* the ids of the tickets there are
ExistingIds ==
    LET ids == CsvIds(ticketsFile)
    IN  (StoreIds(store) \cup {ids[i] : i \in 1..Len(ids)}) \ {Empty}

RaceSeed ==
    /\ reqs = << >>
    /\ steps < MaxRaceSteps
    /\ \E body \in {b \in StatsBodies : ~Has(b, "sla_breach")} :
           CreateTicket(body)

RaceUpdate ==
    /\ steps < MaxRaceSteps
    /\ \E id \in ExistingIds, body \in RaceBodies : StartRequest("update", id, body)

RaceDelete ==
    /\ steps < MaxRaceSteps
    /\ \E id \in ExistingIds : StartRequest("delete", id, NoTicket)

RaceStep ==
    \E i \in DOMAIN reqs :
        \/ PutFind(i) \/ PutUpdateOne(i) \/ DeleteStore(i)
        \/ RewriteCsv(i) \/ HistoryDb(i)

NextRace == RaceSeed \/ RaceUpdate \/ RaceDelete \/ RaceStep

SpecRace == Init /\ [][NextRace]_vars

(***************************************************************************)
(* Write requests one at a time, step by step                              *)
(***************************************************************************)
MaxOrderSteps == 3

NoneInProgress == \A i \in DOMAIN reqs : reqs[i].pc = "done"

OrderCreate ==
    /\ NoneInProgress
    /\ steps < MaxOrderSteps
    /\ \E body \in StatsBodies : StartRequest("create", Empty, body)

OrderUpdate ==
    /\ NoneInProgress
    /\ steps < MaxOrderSteps
    /\ \E id \in ExistingIds, body \in RaceBodies : StartRequest("update", id, body)

OrderDelete ==
    /\ NoneInProgress
    /\ steps < MaxOrderSteps
    /\ \E id \in ExistingIds : StartRequest("delete", id, NoTicket)

OrderStep ==
    \E i \in DOMAIN reqs :
        \/ PostId(i) \/ PostCsv(i) \/ PostSave(i)
        \/ PutFind(i) \/ PutUpdateOne(i) \/ DeleteStore(i)
        \/ RewriteCsv(i) \/ HistoryDb(i)

NextOrder ==
    \/ OrderCreate \/ OrderUpdate \/ OrderDelete \/ OrderStep
    \/ StoreOutage \/ StoreRecovery

SpecOrder == Init /\ [][NextOrder]_vars

(***************************************************************************)
(* The Identifier Generator: calls over the tickets there are, and the id  *)
(* as a function of category, building and count                           *)
(***************************************************************************)
MaxIdSteps == 2

\* categories and buildings: known, unknown, and keys of Object.prototype
IdInputs ==
    { [category |-> <<"Network">>, building |-> <<"LOS1">>],
      [category |-> <<"Storage">>, building |-> <<"HQ">>],
      [category |-> <<"Printer">>, building |-> <<"LOS4">>],
      [category |-> <<"constructor">>, building |-> <<"LOS2">>],
      [category |-> <<"Server">>, building |-> <<"toString">>] }

\* the counts at which the padded number gains a digit
IdCounts == {0, 8, 9, 99, 999, 9998, 9999}

IdSeed ==
    /\ steps < MaxIdSteps
    /\ \E body \in StatsBodies : CreateTicket(body)

IdCall ==
    /\ steps < MaxIdSteps
    /\ \E a \in IdInputs : GenerateId(a.category, a.building)

IdFormat ==
    /\ steps < MaxIdSteps
    /\ \E a \in IdInputs, count \in IdCounts :
           FormatId(a.category, a.building, count + 1)

NextId ==
    \/ IdSeed \/ IdCall \/ IdFormat
    \/ Midnight \/ StoreOutage \/ StoreRecovery

SpecId == Init /\ [][NextId]_vars

(***************************************************************************)
(* The list read over a CSV Mirror that holds rows the program wrote and   *)
(* rows damaged outside the program                                        *)
(***************************************************************************)
MaxListRows == 2
MaxListSteps == 2

\* the ticket of a row: plain values, a comma, a quote, a line feed
ListBodies ==
    {b \in CreateBodies :
        StrOr(b, "category") # Empty /\ StrOr(b, "description") # <<"d">>}

\* whole: the row as POST writes it; cut: the row without the columns after
\* building; gap: the row with an empty cell for the category
RowShapes == {"whole", "cut", "gap"}
CutAt == 3
GapAt == 2

MirrorRows == [body : ListBodies, shape : RowShapes]

RowId(i) == <<"T" \o ToString(i)>>

RowLine(id, r) ==
    LET cells == CreateCells(id, r.body)
    IN  CASE r.shape = "whole" -> Join(cells, COMMA)
          [] r.shape = "cut" -> Join(SubSeq(cells, 1, CutAt), COMMA)
          [] r.shape = "gap" -> Join([cells EXCEPT ![GapAt] = << >>], COMMA)

RECURSIVE RowLines(_, _)
RowLines(rows, i) ==
    IF i > Len(rows) THEN << >>
    ELSE RowLine(RowId(i), rows[i]) \o <<NL>> \o RowLines(rows, i + 1)

MirrorFileOf(rows) == InitialTicketsFile \o RowLines(rows, 1)

MirrorContents ==
    UNION {[1..n -> MirrorRows] : n \in 1..MaxListRows}

\* the state after construction over a mirror left by earlier runs
InitOver(files) ==
    /\ store = << >>
    /\ ticketsFile \in files
    /\ histFile = << >>
    /\ histDb = << >>
    /\ dbUp \in BOOLEAN
    /\ clock = 1
    /\ steps = 0
    /\ histOk = TRUE
    /\ last = [op |-> "none", id |-> Empty, body |-> NoTicket, dbUp |-> dbUp,
               at |-> 0, code |-> 0, src |-> "none", ticket |-> NoTicket,
               repeat |-> FALSE, entries |-> << >>, stats |-> NoStats,
               list |-> << >>]
    /\ reqs = << >>

InitList == InitOver({MirrorFileOf(rows) : rows \in MirrorContents})

ListCreate ==
    /\ steps < MaxListSteps
    /\ \E body \in {b \in StatsBodies : ~Has(b, "ticket_id")} : CreateTicket(body)

List ==
    /\ steps < MaxListSteps
    /\ ListTickets

NextList ==
    \/ ListCreate \/ List \/ StoreOutage \/ StoreRecovery

SpecList == InitList /\ [][NextList]_vars

(***************************************************************************)
(* The Identifier Generator's fallback count                               *)
(***************************************************************************)
MaxFallbackSteps == 2

\* a mirror whose header has no category column
NoCategoryFile ==
    Join(<<<<"ticket_id">>, <<"building">>, <<"description">>>>, COMMA) \o <<NL>>
        \o Join(<<csvEscape(<<"T1">>), csvEscape(<<"Network">>),
                   csvEscape(<<"d">>)>>, COMMA) \o <<NL>>

\* the mirrors of rows the program wrote, a mirror without category column,
\* a mirror without rows and an empty file
FallbackFiles ==
    {MirrorFileOf(rows) :
        rows \in {m \in MirrorContents : \A i \in 1..Len(m) : m[i].shape = "whole"}}
        \cup {NoCategoryFile, InitialTicketsFile, << >>}

FileConditions == {"read", "missing", "unreadable"}

InitFallback == InitOver(FallbackFiles)

FallbackCreate ==
    /\ steps < MaxFallbackSteps
    /\ \E body \in {b \in StatsBodies : ~Has(b, "ticket_id")} : CreateTicket(body)

FallbackCall ==
    /\ steps < MaxFallbackSteps
    /\ \E a \in IdInputs, cond \in FileConditions :
           GenerateFallback(a.category, a.building, cond)

NextFallback ==
    \/ FallbackCreate \/ FallbackCall \/ StoreOutage \/ StoreRecovery

SpecFallback == InitFallback /\ [][NextFallback]_vars

(***************************************************************************)
(* GET /stats while tickets are created: a create can be saved between two *)
(* of the sub-queries of a statistics request                              *)
(***************************************************************************)
MaxRateSteps == 2

RateCreate ==
    /\ steps < MaxRateSteps
    /\ \E body \in {b \in StatsBodies : StrOr(b, "description") = <<"d">>} :
           CreateTicket(body)

RateStats ==
    /\ steps < MaxRateSteps
    /\ \E f \in {g \in StatsFilters : g.kind = "none"} : StatsStart(f)

NextRate ==
    \/ RateCreate \/ RateStats \/ SubQuerySettles \/ StatsRespond

SpecRate == Init /\ [][NextRate]_vars

(***************************************************************************)
(* The week filter of GET /stats as a function of the creation date        *)
(***************************************************************************)
MaxWeek == 6

\* creation dates around the turn of the year 2024/2025 and the dates of
\* Days
WeekDates ==
    {"20240128", "20240201", "20241230", "20250101", "20250105", "20250106",
     "20250108"}

WeekFilters == [kind : {"week"}, year : {2024, 2025}, week : 1..MaxWeek]

\* whether a ticket created on date passes the match of filter f; code is 1
\* when it does, src holds the date
WeekMatch ==
    /\ last.op = "none"
    /\ \E date \in WeekDates, f \in WeekFilters :
           /\ steps' = steps + 1
           /\ last' = Response("week", Empty, f, dbUp, steps + 1,
                               IF Match([createdAt |-> date], f) THEN 1 ELSE 0,
                               date, NoTicket)
    /\ UNCHANGED <<store, ticketsFile, histFile, histDb, dbUp, clock, histOk, reqs>>

NextWeek == WeekMatch \/ StoreOutage \/ StoreRecovery

SpecWeek == Init /\ [][NextWeek]_vars

(***************************************************************************)
(* Requests from entry to response, one at a time, every store call        *)
(* returning or failing in the end                                         *)
(***************************************************************************)
MaxLiveSteps == 2

LiveIdle == \A i \in DOMAIN reqs : reqs[i].op # "stats" /\ reqs[i].pc = "done"

LiveStart ==
    /\ LiveIdle
    /\ steps < MaxLiveSteps
    /\ \/ \E body \in StatsBodies : StartRequest("create", Empty, body)
       \/ \E id \in ExistingIds \cup {<<"X">>}, body \in RaceBodies :
              StartRequest("update", id, body)
       \/ \E id \in ExistingIds \cup {<<"X">>} :
              StartRequest("delete", id, NoTicket) \/ StartRequest("get", id, NoTicket)

LiveStats ==
    /\ steps < MaxLiveSteps
    /\ \E f \in {g \in StatsFilters : g.kind = "none"} : StatsStart(f)

\* the next await of a request settles
LiveSteps ==
    \E i \in DOMAIN reqs :
        /\ reqs[i].op # "stats"
        /\ \/ PostId(i) \/ PostCsv(i) \/ PostSave(i)
           \/ PutFind(i) \/ PutUpdateOne(i) \/ DeleteStore(i)
           \/ RewriteCsv(i) \/ HistoryDb(i) \/ ReadRespond(i)

NextLive ==
    \/ LiveStart \/ LiveStats \/ LiveSteps \/ SubQuerySettles \/ StatsRespond
    \/ StoreOutage \/ StoreRecovery

\* the places where a handler waits for a call it made
AwaitPoints ==
    {"id", "csv", "save", "find", "updateOne", "deleteOne", "histDb", "findOne"}

\* some request waits at one of them
Awaiting ==
    \E i \in DOMAIN reqs : reqs[i].op # "stats" /\ reqs[i].pc \in AwaitPoints

\* a request has moved on
MovesOn ==
    \E i \in DOMAIN reqs :
        /\ reqs[i].op # "stats"
        /\ i \in DOMAIN reqs'
        /\ reqs'[i].pc # reqs[i].pc

\* every call a handler awaits settles, and the handler goes on: a request
\* does not wait forever at an await point, the sub-queries of a statistics
\* request settle and Promise.all hands over
SpecLive ==
    /\ Init /\ [][NextLive]_vars
    /\ ([]<>(~Awaiting) \/ []<><<MovesOn>>_vars)
    /\ WF_vars(SubQuerySettles) /\ WF_vars(StatsRespond)

(***************************************************************************)
(* Vocabulary of the claims                                                *)
(***************************************************************************)
\* a submitted value as the read endpoints render it
Submitted(body, k) ==
    IF k = "assigned_to" THEN Join(body[k], SEMI)
    ELSE IF k = "sla_breach" THEN YesNo(body[k])
    ELSE body[k]

\* the set of ticket_ids of the CSV Mirror's data lines
CsvIdSet(file) ==
    LET ids == CsvIds(file)
    IN  {ids[i] : i \in 1..Len(ids)}

\* the last step was a request (no change of date or availability since)
JustAnswered(op) == last.op = op /\ last.at = steps

\* the parsed data rows of the mirror, as objects keyed by the header
CsvObjects(file) ==
    LET lines == ReadLines(file)
        header == ParseHeader(lines[1])
        rows == Tail(lines)
    IN  [i \in 1..Len(rows) |-> RowObject(header, matchCols(rows[i]))]

(***************************************************************************)
(* C1: a GET /tickets/:id issued right after a POST /tickets returns the   *)
(* submitted values of every submitted field (other than the id), whether  *)
(* the Record Store answers the read or the CSV Mirror fallback does.      *)
(***************************************************************************)
C1_ReadAfterCreate ==
    JustAnswered("create") =>
        \A up \in BOOLEAN :
            LET r == GetResponse(store, ticketsFile, last.id, up, steps + 1)
            IN  /\ r.code = 200
                /\ \A k \in DOMAIN last.body \ {"ticket_id"} :
                       r.ticket[k] = Submitted(last.body, k)

(***************************************************************************)
(* C2: an update leaves every field its body does not carry unchanged, in  *)
(* the Record Store copy and in the CSV Mirror row(s) of the ticket; an    *)
(* update of status alone preserves description.                           *)
(***************************************************************************)
C2_Frame ==
    (last'.op = "update" /\ last'.at = steps') =>
        LET id == last'.id
            body == last'.body
            before == CsvObjects(ticketsFile)
            after == CsvObjects(ticketsFile')
        IN  /\ Len(store') = Len(store)
            /\ \A i \in 1..Len(store) :
                   store[i].ticket_id = id =>
                       \A k \in DOMAIN store[i] \ DOMAIN body :
                           store'[i][k] = store[i][k]
            /\ Len(after) = Len(before)
            /\ \A i \in 1..Len(before) :
                   before[i]["ticket_id"] = id =>
                       \A k \in DOMAIN before[i] \ DOMAIN body :
                           after[i][k] = before[i][k]

\* C2: no update changes a field its body does not carry
C2_PartialUpdate == [][C2_Frame]_vars

(***************************************************************************)
(* C3: no two documents of the Record Store share a ticket_id and no two   *)
(* data rows of the CSV Mirror share a ticket_id.                          *)
(***************************************************************************)
C3_UniqueIds ==
    /\ \A i, j \in 1..Len(store) :
           store[i].ticket_id = store[j].ticket_id => i = j
    /\ \A i, j \in 1..Len(CsvIds(ticketsFile)) :
           CsvIds(ticketsFile)[i] = CsvIds(ticketsFile)[j] => i = j

(***************************************************************************)
(* C4: no update changes the ticket_id of a Record Store document or of a  *)
(* CSV Mirror row.                                                         *)
(***************************************************************************)
C4_Step ==
    (last'.op = "update" /\ last'.at = steps') =>
        /\ Len(store') = Len(store)
        /\ \A i \in 1..Len(store) : store'[i].ticket_id = store[i].ticket_id
        /\ CsvIds(ticketsFile') = CsvIds(ticketsFile)

\* C4: no update changes a stored ticket_id
C4_TicketIdImmutable == [][C4_Step]_vars

(***************************************************************************)
(* C5: after a delete request for id X has returned success, X is in       *)
(* neither the Record Store nor the CSV Mirror and GET /tickets/X answers  *)
(* 404.                                                                    *)
(***************************************************************************)
Absent(st, file, id) == id \notin StoreIds(st) /\ id \notin CsvIdSet(file)

C5_DeleteRemovesEverywhere ==
    (JustAnswered("delete") /\ last.code = 200) =>
        /\ Absent(store, ticketsFile, last.id)
        /\ \A up \in BOOLEAN :
               GetResponse(store, ticketsFile, last.id, up, steps + 1).code = 404

(***************************************************************************)
(* C5 as amended: after a delete request for X has returned success, X is  *)
(* absent from the CSV Mirror and a read that cannot reach the Record      *)
(* Store answers 404; when the Record Store answered the delete, X is      *)
(* absent from the store as well and every read answers 404.  An id that   *)
(* is absent from both copies stays absent until the next create or update *)
(* request is answered.                                                    *)
(***************************************************************************)
AfterDelete(st, file, l, n) ==
    (l.op = "delete" /\ l.at = n /\ l.code = 200) =>
        /\ l.id \notin CsvIdSet(file)
        /\ GetResponse(st, file, l.id, FALSE, n + 1).code = 404
        /\ l.dbUp =>
               /\ Absent(st, file, l.id)
               /\ GetResponse(st, file, l.id, TRUE, n + 1).code = 404

KnownIds(st, file) == StoreIds(st) \cup CsvIdSet(file)

StaysAbsent ==
    \/ last'.at = steps' /\ last'.op \in {"create", "update"}
    \/ KnownIds(store', ticketsFile') \subseteq KnownIds(store, ticketsFile)

C5_Step == AfterDelete(store', ticketsFile', last', steps') /\ StaysAbsent

\* C5 as amended: every step leaves the state as AfterDelete and
\* StaysAbsent describe
C5_DeleteRemoves == [][C5_Step]_vars

\* a delete answered by the Record Store removed a ticket that the store
\* had accepted
C5_Witness ==
    /\ JustAnswered("delete")
    /\ last.code = 200
    /\ last.dbUp
    /\ \E i \in 1..Len(histDb) :
           /\ histDb[i].ticket_id = last.id
           /\ histDb[i].action = "create"
           /\ histDb[i].changes["category"] # Empty

(***************************************************************************)
(* C6: GET /tickets/:id answers from the Record Store when the store is    *)
(* reachable and holds the id, from the CSV Mirror when the store call     *)
(* fails or the store does not hold the id, and with 404 exactly when      *)
(* neither of the two can serve the id.                                    *)
(***************************************************************************)
C6_ReadPreference ==
    last.op = "get" =>
        LET id == last.id
            inStore == last.dbUp /\ id \in StoreIds(store)
            inCsv == id \in CsvIdSet(ticketsFile)
        IN  /\ inStore =>
                /\ last.code = 200
                /\ last.src = "store"
                /\ \E i \in 1..Len(store) :
                       store[i].ticket_id = id /\ last.ticket = StoreTicket(store[i])
            /\ (~inStore /\ inCsv) =>
                /\ last.code = 200
                /\ last.src = "csv"
                /\ \E i \in 1..Len(CsvObjects(ticketsFile)) :
                       /\ last.ticket = CsvObjects(ticketsFile)[i]
                       /\ last.ticket["ticket_id"] = id
            /\ last.code = 404 <=> (~inStore /\ ~inCsv)

\* a read that reached the store, did not find the id there and was served
\* by the mirror
C6_Witness ==
    /\ last.op = "get"
    /\ last.dbUp
    /\ last.src = "csv"
    /\ last.code = 200
    /\ store # << >>

(***************************************************************************)
(* C7: a create, update or delete handled while the Record Store is        *)
(* unavailable still writes the CSV Mirror (the row of the submitted       *)
(* values appended, the rows of the id replaced by the merge, the rows of  *)
(* the id dropped), still appends the history line and returns success.    *)
(***************************************************************************)
HistoryAppended(id, action) ==
    /\ Len(histFile') = Len(histFile) + 1
    /\ SubSeq(histFile', 1, Len(histFile)) = histFile
    /\ histFile'[Len(histFile')].ticket_id = id
    /\ histFile'[Len(histFile')].action = action

C7_Step ==
    (~dbUp /\ last'.at = steps' /\ last'.op \in {"create", "update", "delete"}) =>
        LET id == last'.id
            body == last'.body
            known == id \in CsvIdSet(ticketsFile)
        IN  /\ last'.op = "create" =>
                /\ last'.code = 200
                /\ ticketsFile' = ticketsFile \o CreateRow(id, body)
                /\ id \in CsvIdSet(ticketsFile')
                /\ HistoryAppended(id, "create")
            /\ (last'.op = "update" /\ known) =>
                /\ last'.code = 200
                /\ ticketsFile' = UpdateFile(ticketsFile, id, body)
                /\ HistoryAppended(id, "update")
            /\ (last'.op = "delete" /\ known) =>
                /\ last'.code = 200
                /\ ticketsFile' = DeleteFile(ticketsFile, id)
                /\ id \notin CsvIdSet(ticketsFile')
                /\ HistoryAppended(id, "delete")

\* C7: a write request answered without the Record Store still writes the mirror and the history
C7_StoreDownWrites == [][C7_Step]_vars

\* an update of a mirrored ticket was answered with success while the
\* Record Store was unavailable
C7_Witness ==
    /\ JustAnswered("update")
    /\ ~last.dbUp
    /\ last.code = 200
    /\ Len(histFile) > Len(histDb)

(***************************************************************************)
(* C8: for a ticket held in the Record Store, an update that moves its     *)
(* status into Closed sets closedAt, an update that moves it out of Closed *)
(* clears closedAt, and any other update leaves closedAt as it was.        *)
(***************************************************************************)
ClosedAt(doc) == IF "closedAt" \in DOMAIN doc THEN doc["closedAt"] ELSE Null

C8_Step ==
    (dbUp /\ last'.op = "update" /\ last'.at = steps') =>
        \A i \in 1..Len(store) :
            store[i].ticket_id = last'.id =>
                LET wasClosed == store[i].status = <<"Closed">>
                    isClosed == store'[i].status = <<"Closed">>
                IN  /\ (~wasClosed /\ isClosed) => ClosedAt(store'[i]) # Null
                    /\ (wasClosed /\ ~isClosed) => ClosedAt(store'[i]) = Null
                    /\ (wasClosed <=> isClosed) =>
                           ClosedAt(store'[i]) = ClosedAt(store[i])

\* C8: every update sets, clears or keeps closedAt as the status transition requires
C8_ClosedAt == [][C8_Step]_vars

(***************************************************************************)
(* C9: when every request so far was a create of one category and one      *)
(* building without a ticket_id, answered on one day with the Record Store *)
(* available, the j-th id ends in the sequence number j, padded to four    *)
(* digits.                                                                 *)
(***************************************************************************)
OnlyCreatesOf(body) ==
    /\ steps = Len(histFile)
    /\ steps = Len(histDb)
    /\ clock = 1
    /\ \A j \in 1..Len(histFile) :
           histFile[j].action = "create" /\ histFile[j].changes = body

ExpectedId(body, j) ==
    <<"KASI-" \o BUILDING_CODES(StrOr(body, "building")) \o "-" \o Days[1]
        \o "-" \o CATEGORY_SHORT(body["category"]) \o "-" \o padStart4(j)>>

C9_SequentialIds ==
    \A body \in {b \in CreateBodies : ~Has(b, "ticket_id")} :
        OnlyCreatesOf(body) =>
            \A j \in 1..Len(histFile) :
                histFile[j].ticket_id = ExpectedId(body, j)

(***************************************************************************)
(* C10: two calls of the Identifier Generator with the same category and   *)
(* building and no write between them return the same sequence number,     *)
(* whether or not the Record Store answers the count.                      *)
(***************************************************************************)
C10_SameSequenceNumber ==
    \A body \in {b \in CreateBodies : ~Has(b, "ticket_id")} :
        SequenceNumber(store, ticketsFile, body["category"], TRUE)
            = SequenceNumber(store, ticketsFile, body["category"], FALSE)

(***************************************************************************)
(* C10 as amended: a call of the Identifier Generator changes neither the  *)
(* Record Store, the CSV Mirror nor the History Log, and it returns the    *)
(* sequence number of the call before it when that call had the same       *)
(* category and building, no create, update or delete was answered in      *)
(* between, and the Record Store was available to both calls or to         *)
(* neither.                                                                *)
(***************************************************************************)
C10_Step ==
    (last'.op = "generate" /\ last'.at = steps') =>
        /\ UNCHANGED <<store, ticketsFile, histFile, histDb>>
        /\ (last.op = "generate" /\ last.body = last'.body
                /\ last.dbUp = last'.dbUp) =>
               last'.code = last.code

\* C10: as amended, a generator call has no side effect and repeats the number of the call before it
C10_GeneratorIdempotent == [][C10_Step]_vars

\* the generator was called twice in a row with the same arguments after a
\* create of that category
C10_Witness ==
    /\ JustAnswered("generate")
    /\ last.repeat
    /\ last.code > 1

(***************************************************************************)
(* C11: the sequence number the Identifier Generator returns for a         *)
(* category never decreases from one call to a later call, whatever        *)
(* requests are answered in between.                                       *)
(***************************************************************************)
C11_Step ==
    \A body \in {b \in CreateBodies : ~Has(b, "ticket_id")}, up \in BOOLEAN :
        SequenceNumber(store', ticketsFile', body["category"], up)
            >= SequenceNumber(store, ticketsFile, body["category"], up)

\* C11: no step lowers the sequence number of a category
C11_SequenceMonotonic == [][C11_Step]_vars

(***************************************************************************)
(* C12: a row written with the CSV Mirror's quoting rule and parsed back   *)
(* with the mirror's reader has the written value in every column, and the *)
(* write adds exactly one row.                                             *)
(***************************************************************************)
WrittenValues(id, body) ==
    [ticket_id |-> id,
     category |-> StrOr(body, "category"),
     building |-> StrOr(body, "building"),
     description |-> StrOr(body, "description"),
     status |-> IF StrOr(body, "status") # Empty THEN body["status"]
                ELSE <<"Open">>,
     assigned_to |-> AssignedToStr(body),
     sla_breach |-> YesNo(Has(body, "sla_breach") /\ body["sla_breach"])]

C12_Step ==
    (last'.op = "create" /\ last'.at = steps') =>
        LET before == CsvObjects(ticketsFile)
            after == CsvObjects(ticketsFile')
        IN  /\ Len(after) = Len(before) + 1
            /\ after[Len(before) + 1] = WrittenValues(last'.id, last'.body)

\* C12: every create writes a row that the reader returns as written
C12_CsvRoundTrip == [][C12_Step]_vars

(***************************************************************************)
(* Vocabulary of the history claims                                        *)
(***************************************************************************)
\* the step answers a create, update or delete with success
WriteSucceeds ==
    /\ last'.at = steps'
    /\ last'.op \in {"create", "update", "delete"}
    /\ last'.code = 200

\* the entry is the one of the request answered by the step
EntryOfRequest(e) ==
    /\ e.ticket_id = last'.id
    /\ e.action = last'.op
    /\ e.changes = last'.body

\* one log is the other with one entry more, the entry of the request
OneMore(log, log2) ==
    /\ Len(log2) = Len(log) + 1
    /\ SubSeq(log2, 1, Len(log)) = log
    /\ EntryOfRequest(log2[Len(log2)])

\* the entries of one ticket, in the order of the log
EntriesOf(log, id) == SelectSeq(log, LAMBDA e : e.ticket_id = id)

IsPrefix(log, log2) ==
    Len(log) <= Len(log2) /\ SubSeq(log2, 1, Len(log)) = log

(***************************************************************************)
(* C13: every create, update or delete that returns success appends one    *)
(* entry of the ticket and the action to the history CSV file and one      *)
(* matching entry to the history collection of the Record Store.           *)
(***************************************************************************)
C13_Step ==
    WriteSucceeds =>
        /\ OneMore(histFile, histFile')
        /\ OneMore(histDb, histDb')
        /\ histDb'[Len(histDb')] = histFile'[Len(histFile')]

\* C13: every successful write request adds its entry to both logs
C13_HistoryDualWritten == [][C13_Step]_vars

(***************************************************************************)
(* C13 as amended: every create, update or delete that returns success     *)
(* appends one entry of the ticket and the action to the history CSV file; *)
(* when the Record Store answers it appends the same entry to the history  *)
(* collection, and when the store is unavailable the collection is left    *)
(* as it was.  No other step changes either log, and as long as the two    *)
(* logs have the same length they hold the same sequence of entries.       *)
(***************************************************************************)
C13_AmendedStep ==
    /\ WriteSucceeds =>
           /\ OneMore(histFile, histFile')
           /\ dbUp => /\ OneMore(histDb, histDb')
                      /\ histDb'[Len(histDb')] = histFile'[Len(histFile')]
           /\ ~dbUp => histDb' = histDb
    /\ ~WriteSucceeds => (histFile' = histFile /\ histDb' = histDb)
    /\ Len(histDb') = Len(histFile') => histDb' = histFile'

\* C13 as amended: every step treats the two logs as C13_AmendedStep says
C13_HistoryLogged == [][C13_AmendedStep]_vars

\* an update was answered by the store after a create, and both logs hold
\* the two entries
C13_Witness ==
    /\ JustAnswered("update")
    /\ last.code = 200
    /\ last.dbUp
    /\ Len(histFile) >= 2
    /\ histDb = histFile
    /\ histFile[Len(histFile)].action = "update"

(***************************************************************************)
(* C14: the History Log is append-only: every step leaves the entries of   *)
(* the history CSV file and of the history collection as a prefix of the   *)
(* entries after it, also when a ticket is deleted.                        *)
(***************************************************************************)
C14_Step == IsPrefix(histFile, histFile') /\ IsPrefix(histDb, histDb')

\* C14: no step modifies or removes an entry of either log
C14_AppendOnly == [][C14_Step]_vars

\* a ticket was deleted and the entry of its creation is still in both logs
C14_Witness ==
    /\ JustAnswered("delete")
    /\ last.code = 200
    /\ Len(histFile) >= 2
    /\ histFile[1].action = "create"
    /\ histFile[1].ticket_id = last.id
    /\ Len(histDb) >= 2
    /\ histDb[1] = histFile[1]

(***************************************************************************)
(* C15: a failure of the history CSV write or of the history store write   *)
(* never makes a create, update or delete answer an error, and the other   *)
(* history write still happens.                                            *)
(***************************************************************************)
C15_Step ==
    (last'.at = steps' /\ last'.op \in {"create", "update", "delete"}
        /\ last'.code # 404) =>
        /\ last'.code = 200
        /\ histOk => OneMore(histFile, histFile')
        /\ dbUp => OneMore(histDb, histDb')

\* C15: every write request survives a failing history write
C15_HistoryFailureTolerated == [][C15_Step]_vars

RECURSIVE IsSubsequence(_, _)
IsSubsequence(a, b) ==
    IF a = << >> THEN TRUE
    ELSE IF b = << >> THEN FALSE
    ELSE IF Head(a) = Head(b) THEN IsSubsequence(Tail(a), Tail(b))
    ELSE IsSubsequence(a, Tail(b))

StatsAnswered == JustAnswered("stats") /\ last.code = 200

\* the sum of the counts of a list of groups
RECURSIVE SumCounts(_)
SumCounts(groups) ==
    IF groups = << >> THEN 0
    ELSE SumCounts(Front(groups)) + Last(groups).count

\* C17: in every statistics response, whatever the filter and the content
\* of the Record Store, the counts of the byStatus groups sum to
\* totalTickets.
C17_ByStatusSumsToTotal ==
    StatsAnswered => SumCounts(last.stats.byStatus) = last.stats.totalTickets

\* a response with two status groups over two tickets
C17_Witness ==
    /\ StatsAnswered
    /\ Len(last.stats.byStatus) = 2
    /\ last.stats.totalTickets = 2

FlaggedCount(st, f, b) ==
    Len(SelectSeq(Matching(st, f), LAMBDA d : d.sla_breach = b))

\* C19: slaStats.breached is the number of tickets of the filtered set
\* whose SLA-breach flag is set, and slaStats.onTime the number of those
\* whose flag is not set.
C19_SlaCountsFollowFlag ==
    StatsAnswered =>
        /\ last.stats.breached = FlaggedCount(store, last.body, TRUE)
        /\ last.stats.onTime = FlaggedCount(store, last.body, FALSE)

\* the date string of the calendar parts of a day
DayString(p) ==
    ToString(p.year) \o "-" \o padStart2(ToString(p.month)) \o "-"
        \o padStart2(ToString(p.day))

\* the days a per-day sub-query reports
ReportedDays(perDay) == {DayString(perDay[i]._id) : i \in 1..Len(perDay)}

\* C20: ticketsOverTime is in strictly ascending date order, so no date
\* appears twice, and its dates are exactly the union of the days that the
\* opened-per-day and the closed-per-day sub-queries report.
C20_OverTimeSortedUnion ==
    StatsAnswered =>
        LET list == last.stats.ticketsOverTime
        IN  /\ \A i, j \in 1..Len(list) :
                   i < j => DateValue(list[i].date) < DateValue(list[j].date)
            /\ {list[i].date : i \in 1..Len(list)}
                   = ReportedDays(ticketsOpenedOverTime(store, last.body))
                       \cup ReportedDays(ticketsClosedOverTime(store, last.body))

\* a response with two days, one of them with a closed ticket
C20_Witness ==
    /\ StatsAnswered
    /\ Len(last.stats.ticketsOverTime) = 2
    /\ \E i \in 1..2 : last.stats.ticketsOverTime[i].closed > 0


\* a history entry that fixes the status of its ticket, and the status
SetsStatus(e) == e.action = "create" \/ Has(e.changes, "status")

StatusSet(e) ==
    IF StrOr(e.changes, "status") # Empty THEN e.changes["status"]
    ELSE <<"Open">>

\* the days on which the history of a ticket that is Closed shows it to
\* have been closed: the timestamp of the entry that moved the status into
\* Closed (none when the closing update was answered 404 and left no entry)
ClosedOn(log, id) ==
    LET es == EntriesOf(log, id)
        closes(k) == SetsStatus(es[k]) /\ StatusSet(es[k]) = <<"Closed">>
    IN  {es[k].timestamp : k \in
            {k \in 1..Len(es) :
                /\ closes(k)
                /\ \A j \in (k + 1)..Len(es) : SetsStatus(es[j]) => closes(j)
                /\ \A j \in 1..(k - 1) :
                       (SetsStatus(es[j])
                          /\ \A m \in (j + 1)..(k - 1) : ~SetsStatus(es[m]))
                       => ~closes(j)}}

\* a date string lies in the range of a month or year filter
InRange(date, f) ==
    LET p == DateParts(Days[DateValue(date)])
    IN  /\ p.year = f.year
        /\ f.kind = "month" => p.month = f.month

\* the tickets of the store with status Closed that the history does not
\* show to have been closed on another day than date
ClosedThatDay(st, log, date) ==
    {i \in 1..Len(st) :
        /\ st[i].status = <<"Closed">>
        /\ \A ts \in ClosedOn(log, st[i].ticket_id) :
               DayString(DateParts(ts)) = date}

\* C21: with a month or year filter every entry of ticketsOverTime has a
\* date inside the filtered range, and its closed count counts only tickets
\* with status Closed that were closed on that day, so that a ticket created
\* inside the range and closed outside it adds nothing to a closed count.
C21_ClosedInsideRange ==
    (StatsAnswered /\ last.body.kind \in {"month", "year"}) =>
        LET list == last.stats.ticketsOverTime
        IN  \A i \in 1..Len(list) :
                /\ InRange(list[i].date, last.body)
                /\ list[i].closed
                       <= Cardinality(ClosedThatDay(store, histDb, list[i].date))


\* C22: analytics.topCategory is the category group with the maximum count
\* of the filtered set, the first of the group results when several groups
\* share the maximum, and 'N/A' when there is no ticket.
C22_TopCategoryFirstOfMax ==
    StatsAnswered =>
        LET groups == last.stats.byCategory
        IN  IF groups = << >> THEN last.stats.topCategory = <<"N/A">>
            ELSE \E i \in 1..Len(groups) :
                    /\ groups[i].category = last.stats.topCategory
                    /\ \A j \in 1..Len(groups) : groups[j].count <= groups[i].count
                    /\ \A j \in 1..(i - 1) : groups[j].count < groups[i].count


(***************************************************************************)
(* Statistics, sub-query by sub-query                                      *)
(***************************************************************************)
C23_Step ==
    (reqs # << >> /\ reqs' = << >> /\ reqs[1].op = "stats") =>
        /\ last'.op = "stats"
        /\ IF reqs[1].failed
           THEN last'.code = 500 /\ last'.stats = NoStats
           ELSE /\ reqs[1].pending = {}
                /\ last'.code = 200
                /\ \E sg \in SubQueryResults("byStatus", store, reqs[1].f),
                      cg \in SubQueryResults("byCategory", store, reqs[1].f) :
                       last'.stats = StatsBody(store, reqs[1].f, sg, cg)

\* C23: a statistics request answers only when its sub-queries have settled:
\* with a failed sub-query it answers 500 without a statistics body, else all
\* eight have completed and the body is the one the eight results determine,
\* whatever the order in which they completed.
C23_AllOrNothing == [][C23_Step]_vars

\* a request over two tickets with two statuses was answered with a body
C23_Witness ==
    /\ reqs = << >>
    /\ last.op = "stats"
    /\ last.code = 200
    /\ last.stats.totalTickets = 2
    /\ Len(last.stats.byStatus) = 2


(***************************************************************************)
(* Overlapping write requests                                              *)
(***************************************************************************)
\* tickets.csv shows the change of an update or delete request: the rows of
\* the id are gone, or there is a row of the id and every such row has the
\* values of the body
Reflects(file, r) ==
    LET rows == CsvObjects(file)
        mine == {i \in 1..Len(rows) : rows[i]["ticket_id"] = r.id}
    IN  IF r.op = "delete" THEN mine = {}
        ELSE /\ mine # {}
             /\ \A i \in mine, k \in DOMAIN r.body :
                    rows[i][k] = Submitted(r.body, k)

\* request r2 has written over the change of the update r1: it removed the
\* ticket or set one of the same fields
Overwrites(r2, r1) ==
    /\ r2.csvDone
    /\ r2.id = r1.id
    /\ r2.op = "delete" \/ DOMAIN r2.body \cap DOMAIN r1.body # {}

\* the change of request i can be expected in the file: the request has
\* written it and no other request has written over it
Stands(i) ==
    /\ reqs[i].op \in {"update", "delete"}
    /\ reqs[i].csvDone
    /\ reqs[i].op = "update" =>
           \A j \in DOMAIN reqs \ {i} : ~Overwrites(reqs[j], reqs[i])

\* two requests raced on tickets.csv and both answered success
Raced(i, j) ==
    /\ i \in reqs[j].racing
    /\ reqs[i].pc = "done" /\ reqs[i].code = 200
    /\ reqs[j].pc = "done" /\ reqs[j].code = 200
    /\ Stands(i) /\ Stands(j)

ClaimedBuildingCode(building) ==
    IF building \in {<<"LOS1">>, <<"LOS2">>, <<"LOS3">>, <<"LOS4">>, <<"LOS5">>}
    THEN building[1] ELSE "LOS5"

ClaimedShortCode(category) ==
    CASE category = <<"Network">> -> "NET"
      [] category = <<"Server">> -> "SER"
      [] category = <<"Storage">> -> "STOR"
      [] category = <<"Power">> -> "PWD"
      [] category = <<"Cooling">> -> "COOL"
      [] category = <<"Security">> -> "SEC"
      [] category = <<"Access Control">> -> "AC"
      [] category = <<"Application">> -> "APP"
      [] category = <<"Database">> -> "DBS"
      [] OTHER -> "GEN"

\* the decimal digits of n behind zeros up to four digits; a number of more
\* than four digits has no such form
FourDigits(n) ==
    CASE n < 10 -> "000" \o ToString(n)
      [] n >= 10 /\ n < 100 -> "00" \o ToString(n)
      [] n >= 100 /\ n < 1000 -> "0" \o ToString(n)
      [] n >= 1000 /\ n < 10000 -> ToString(n)
      [] OTHER -> ""

\* the tickets of a category in the copy the generator counted
ExistingOf(category, up) ==
    IF up THEN Cardinality({i \in 1..Len(store) : store[i].category = category})
    ELSE LET rows == CsvObjects(ticketsFile)
         IN  Cardinality({i \in 1..Len(rows) : rows[i]["category"] = category})

\* C25: every generated id is KASI-<buildingCode>-<yyyymmdd>-<short>-<NNNN>
\* with the building itself for LOS1..LOS5 and LOS5 for any other value,
\* the mapped code of a known category and GEN otherwise, and exactly four
\* digits equal to the zero-padded count of the category's tickets plus one.
C25_IdFormat ==
    (JustAnswered("generate") \/ JustAnswered("format")) =>
        /\ last.id = <<"KASI-" \o ClaimedBuildingCode(last.body.building) \o "-"
                         \o Days[clock] \o "-"
                         \o ClaimedShortCode(last.body.category) \o "-"
                         \o FourDigits(last.code)>>
        /\ JustAnswered("generate") =>
               last.code = ExistingOf(last.body.category, last.dbUp) + 1


(***************************************************************************)
(* The list read and damaged rows                                          *)
(***************************************************************************)
\* the columns a damaged row lacks
MissingColumns(shape) ==
    CASE shape = "whole" -> {}
      [] shape = "cut" -> {HEADER[i] : i \in (CutAt + 1)..Len(HEADER)}
      [] shape = "gap" -> {HEADER[GapAt]}

\* the object C26 expects for a row: the written values, and empty values
\* for the columns the row lacks
ExpectedRow(id, r) ==
    [k \in DOMAIN WrittenValues(id, r.body) |->
        IF k \in MissingColumns(r.shape) THEN Empty
        ELSE WrittenValues(id, r.body)[k]]

\* C26: a row with missing columns never aborts the list read: the read
\* answers 200, returns every well-formed row with its values intact and
\* the malformed row with its missing columns filled with empty values.
C26_MalformedRowTolerated ==
    (JustAnswered("list") /\ last.src = "csv") =>
        /\ last.code = 200
        /\ \A rows \in MirrorContents :
               ticketsFile = MirrorFileOf(rows) =>
                   \A i \in 1..Len(rows) :
                       \E j \in 1..Len(last.list) :
                           last.list[j] = ExpectedRow(RowId(i), rows[i])

\* the part of C26 that holds: rows without a line feed in a value, whole
\* or cut short at the end
C26_TrailingColumnsFilled ==
    (JustAnswered("list") /\ last.src = "csv") =>
        /\ last.code = 200
        /\ \A rows \in MirrorContents :
               ticketsFile = MirrorFileOf(rows) =>
                   \A i \in 1..Len(rows) :
                       (/\ rows[i].shape # "gap"
                        /\ \A m \in 1..Len(rows) : rows[m].body \in StatsBodies)
                           => last.list[i] = ExpectedRow(RowId(i), rows[i])


(***************************************************************************)
(* The generator's fallback count                                          *)
(***************************************************************************)
\* the data rows of the mirror that have a cell in the category column with
\* the value category; none when the header has no such column
RowsOfCategory(file, category) ==
    LET lines == ReadLines(file)
        header == ParseHeader(lines[1])
        rows == Tail(lines)
    IN  {i \in 1..Len(rows) :
            \E c \in 1..Len(header) :
                /\ header[c] = <<"category">>
                /\ \A b \in 1..(c - 1) : header[b] # <<"category">>
                /\ c <= Len(matchCols(rows[i]))
                /\ ParseRows(file)[i]["category"] = category}

\* C27: when the Record Store count fails the sequence is the number of
\* mirror rows whose category column equals the requested category, plus
\* one; it is 0001 when the file is missing, has no category column or
\* cannot be read; the generator returns an id in every case.
C27_FallbackCount ==
    (JustAnswered("generate") /\ ~last.dbUp) =>
        /\ last.code =
               IF last.src = "read"
               THEN Cardinality(RowsOfCategory(ticketsFile, last.body.category)) + 1
               ELSE 1
        /\ last.src # "read" \/ ticketsFile \in {NoCategoryFile, << >>}
               => last.id[1] = "KASI-" \o BUILDING_CODES(last.body.building)
                                  \o "-" \o Days[clock] \o "-"
                                  \o CATEGORY_SHORT(last.body.category) \o "-0001"
        /\ last.id = TicketIdOf(last.body.category, last.body.building, clock,
                                last.code)

\* the fallback counted two rows of the category
C27_Witness ==
    /\ JustAnswered("generate") /\ ~last.dbUp /\ last.src = "read"
    /\ last.code = 3


(***************************************************************************)
(* The order of the writes of one request                                  *)
(***************************************************************************)
\* C28: in every write request the Record Store write comes first, the CSV
\* Mirror write second and the history append after both: no request has
\* changed the CSV Mirror before its Record Store write was attempted.
C28_StoreBeforeCsv ==
    \A i \in DOMAIN reqs : reqs[i].csvDone => reqs[i].storeTried

\* the same order for update and delete requests only
C28_StoreBeforeCsvOnRewrite ==
    \A i \in DOMAIN reqs :
        (reqs[i].op # "create" /\ reqs[i].csvDone) => reqs[i].storeTried

\* a step that appends to the history file belongs to a request that has
\* made both its writes
C28_HistoryAfterBoth ==
    [][histFile' # histFile =>
          \E i \in DOMAIN reqs :
              /\ reqs'[i] # reqs[i]
              /\ reqs'[i].csvDone /\ reqs'[i].storeTried]_vars


(***************************************************************************)
(* The frame of the CSV Mirror writes                                      *)
(***************************************************************************)
\* the rows of a occur in b in the same relative order
RECURSIVE Embeds(_, _)
Embeds(a, b) ==
    IF a = << >> THEN TRUE
    ELSE IF b = << >> THEN FALSE
    ELSE IF Head(a) = Head(b) THEN Embeds(Tail(a), Tail(b))
    ELSE Embeds(a, Tail(b))

\* the rows of a mirror other than those of ticket id
OtherRows(file, id) ==
    SelectSeq(ParseRows(file), LAMBDA row : row["ticket_id"] # id)

ColumnOrder(file) == ParseHeader(ReadLines(file)[1])

\* an update or delete was answered in this step
Rewrote == steps' = steps + 1 /\ last'.at = steps' /\ last'.op \in {"update", "delete"}

Created == steps' = steps + 1 /\ last'.at = steps' /\ last'.op = "create"

\* the rows other than X's are kept, in order, and so are the columns
RowsKept ==
    /\ ColumnOrder(ticketsFile') = ColumnOrder(ticketsFile)
    /\ Embeds(OtherRows(ticketsFile, last'.id), ParseRows(ticketsFile'))
    /\ last'.op = "delete" =>
           ParseRows(ticketsFile')
               \in {OtherRows(ticketsFile, last'.id), ParseRows(ticketsFile)}

\* one row more, the rows there were unchanged
OneRowAppended ==
    /\ ColumnOrder(ticketsFile') = ColumnOrder(ticketsFile)
    /\ Len(ParseRows(ticketsFile')) = Len(ParseRows(ticketsFile)) + 1
    /\ SubSeq(ParseRows(ticketsFile'), 1, Len(ParseRows(ticketsFile)))
           = ParseRows(ticketsFile)

\* C29: an update or delete of ticket X keeps every row whose ticket_id is
\* not X with the same column values and in the same relative order, and
\* keeps the column order of the file; a create appends one row and changes
\* no existing row.
C29_WriteFrame ==
    [][(Rewrote => RowsKept) /\ (Created => OneRowAppended)]_vars

\* the part of C29 about update and delete
C29_RewriteFrame == [][Rewrote => RowsKept]_vars


(***************************************************************************)
(* The compliance rate                                                     *)
(***************************************************************************)
\* onTime / max(total, 1) * 100 in tenths, rounded to the nearest tenth
RateTenths(onTime, total) ==
    LET d == IF total > 1 THEN total ELSE 1
    IN  CHOOSE t \in 0..(1000 * (onTime + 1)) :
            /\ 2 * t * d - 2000 * onTime <= d
            /\ 2 * t * d - 2000 * onTime > -d

\* the decimal numeral of a number of tenths
RateString(t) == ToString(t \div 10) \o "." \o ToString(t % 10)

\* C30: complianceRate equals onTime divided by max(totalTickets, 1), times
\* 100, rounded to one decimal; it is 0.0 when the filtered set is empty
\* and never exceeds 100.0.
C30_ComplianceRate ==
    (JustAnswered("stats") /\ last.code = 200) =>
        /\ last.stats.complianceRate
               = RateString(RateTenths(last.stats.onTime, last.stats.totalTickets))
        /\ last.stats.totalTickets = 0 => last.stats.complianceRate = "0.0"
        /\ RateTenths(last.stats.onTime, last.stats.totalTickets) <= 1000

\* the first part of C30 alone: the rate is computed from the two counts of
\* the same response
C30_RateOfCounts ==
    (JustAnswered("stats") /\ last.code = 200) =>
        last.stats.complianceRate
            = RateString(RateTenths(last.stats.onTime, last.stats.totalTickets))


(***************************************************************************)
(* The week filter                                                         *)
(***************************************************************************)
\* days from Monday 2024-01-01 (2024 has 366 days)
DayNumber(p) == (IF p.year = 2024 THEN 0 ELSE 366) + DayOfYear(p) - 1

\* the ISO week of a date: the week of the year its Thursday lies in
IsoWeek(ts) ==
    LET n == DayNumber(DateParts(ts))
        thursday == n - (n % 7) + 3
    IN  IF thursday < 366
        THEN [year |-> 2024, week |-> thursday \div 7 + 1]
        ELSE [year |-> 2025, week |-> (thursday - 366) \div 7 + 1]

\* C31: with the filter week=YYYY-Www the statistics count exactly the
\* tickets whose creation date falls in ISO week ww of year YYYY.
C31_IsoWeek ==
    JustAnswered("week") =>
        (last.code = 1 <=>
            IsoWeek(last.src) = [year |-> last.body.year, week |-> last.body.week])

\* the weeks of 2024, whose January 1st is a Monday
C31_IsoWeek2024 ==
    (JustAnswered("week") /\ last.body.year = 2024 /\ last.src # "20241230") =>
        (last.code = 1 <=>
            IsoWeek(last.src) = [year |-> last.body.year, week |-> last.body.week])


(***************************************************************************)
(* One response per request                                                *)
(***************************************************************************)
\* request i has been answered
Answered(i) ==
    /\ i \in DOMAIN reqs
    /\ reqs[i].op # "stats"
    /\ reqs[i].pc = "done"
    /\ reqs[i].code \in {200, 404, 500}

\* C32: every create, read, update, delete and statistics request ends with
\* exactly one response (success, 404 or 500) when each store call returns
\* or fails: each request is answered in the end, and a request that has
\* been answered takes no further step.
C32_OneResponse ==
    /\ \A i \in 1..MaxLiveSteps :
           (i \in DOMAIN reqs /\ reqs[i].op # "stats") ~> Answered(i)
    /\ (reqs # << >> /\ reqs[1].op = "stats")
           ~> (reqs = << >> /\ last.op = "stats" /\ last.code \in {200, 500})
    /\ [][\A i \in DOMAIN reqs :
             (reqs[i].op # "stats" /\ reqs[i].pc = "done")
                 => (i \in DOMAIN reqs' /\ reqs'[i] = reqs[i])]_vars

\* an update answered 200 after a create
C32_Witness ==
    /\ Len(reqs) = 2
    /\ Answered(1) /\ Answered(2)
    /\ reqs[2].op = "update" /\ reqs[2].code = 200


(***************************************************************************)
(* closedAt and the status                                                 *)
(***************************************************************************)
\* C33: in every reachable state a ticket of the Record Store has a
\* non-null closedAt if and only if its status is Closed, also when it was
\* created with status Closed.
C33_ClosedAtIffClosed ==
    \A i \in 1..Len(store) :
        ClosedAt(store[i]) # Null <=> store[i].status = <<"Closed">>

\* one half of C33: no ticket that is not Closed has a closedAt
C33_OpenHasNoClosedAt ==
    \A i \in 1..Len(store) :
        store[i].status # <<"Closed">> => ClosedAt(store[i]) = Null


(***************************************************************************)
(* A 404 of PUT /:id and DELETE /:id                                       *)
(***************************************************************************)
\* the step is an update or a delete request that answers 404
NotFoundStep ==
    /\ last'.at = steps'
    /\ steps' = steps + 1
    /\ last'.op \in {"update", "delete"}
    /\ last'.code = 404

\* C34: an update or delete request that answers 404 has changed nothing:
\* the Record Store, the CSV Mirror and both history logs are as before,
\* also when the id is in the Record Store but not in the CSV Mirror.
C34_NotFoundChangesNothing ==
    [][NotFoundStep => UNCHANGED <<store, ticketsFile, histFile, histDb>>]_vars

\* the part of C34 that holds: a 404 leaves the mirror and both logs alone
C34_NotFoundKeepsFiles ==
    [][NotFoundStep => UNCHANGED <<ticketsFile, histFile, histDb>>]_vars


(***************************************************************************)
(* The two copies with the Record Store always up: create, update and      *)
(* delete requests run one at a time, each from entry to response, and the *)
(* Record Store answers every call.                                        *)
(***************************************************************************)
InitUp == Init /\ dbUp

NextUp == Create \/ Update \/ Delete

SpecUp == InitUp /\ [][NextUp]_vars

\* the fields of a Record Store document that the mirror's row repeats
SharedFields == {"category", "status", "description", "assigned_to"}

\* the ticket_ids of the mirror's data rows
MirrorIds(file) ==
    {CsvObjects(file)[j]["ticket_id"] : j \in DOMAIN CsvObjects(file)}

\* C35: with the Record Store always available and requests run one at a
\* time, the ticket_ids of the Record Store are those of the CSV Mirror, and
\* for each id the two copies agree on category, status, description and
\* assigned engineers.
C35_CopiesAgree ==
    /\ StoreIds(store) = MirrorIds(ticketsFile)
    /\ \A i \in 1..Len(store), j \in DOMAIN CsvObjects(ticketsFile) :
           CsvObjects(ticketsFile)[j]["ticket_id"] = store[i].ticket_id =>
               \A k \in SharedFields :
                   CsvObjects(ticketsFile)[j][k] = StoreTicket(store[i])[k]

\* the first half of C35 alone
C35_SameIds == StoreIds(store) = MirrorIds(ticketsFile)

\* the second half of C35 alone
C35_SameFields ==
    \A i \in 1..Len(store), j \in DOMAIN CsvObjects(ticketsFile) :
        CsvObjects(ticketsFile)[j]["ticket_id"] = store[i].ticket_id =>
            \A k \in SharedFields :
                CsvObjects(ticketsFile)[j][k] = StoreTicket(store[i])[k]


(***************************************************************************)
(* Overlapping updates of one document                                     *)
(***************************************************************************)
\* requests i and j are two updates of one ticket that overlapped, i with
\* only a status and j with only a description, and both answered success
DisjointUpdates(i, j) ==
    /\ Raced(i, j) \/ Raced(j, i)
    /\ reqs[i].op = "update" /\ reqs[j].op = "update"
    /\ reqs[i].id = reqs[j].id
    /\ DOMAIN reqs[i].body = {"status"}
    /\ DOMAIN reqs[j].body = {"description"}

\* C36: when two updates of one ticket overlap, one with only a status and
\* the other with only a description, the Record Store document holds both
\* new values once both have completed.
C36_BothChangesKept ==
    \A i, j \in DOMAIN reqs :
        DisjointUpdates(i, j) =>
            \A k \in 1..Len(store) :
                store[k].ticket_id = reqs[i].id =>
                    /\ store[k].status = reqs[i].body["status"]
                    /\ store[k].description = reqs[j].body["description"]

\* what the code ensures: the document holds the value of the request whose
\* updateOne settled last, the mirror's row holds both
C36_OneChangeKept ==
    \A i, j \in DOMAIN reqs :
        DisjointUpdates(i, j) =>
            /\ Reflects(ticketsFile, reqs[i]) /\ Reflects(ticketsFile, reqs[j])
            /\ \A k \in 1..Len(store) :
                   store[k].ticket_id = reqs[i].id =>
                       \/ store[k].status = reqs[i].body["status"]
                       \/ store[k].description = reqs[j].body["description"]


(***************************************************************************)
(* GET / and GET /:id on one state                                         *)
(***************************************************************************)
\* GET /:id answers 200 for the id in the current state
Fetchable(id) == GetResponse(store, ticketsFile, id, dbUp, steps).code = 200

\* the ticket_ids of the list GET / returns in the current state
ListedIds ==
    LET list == ListResponse(store, ticketsFile, dbUp, steps).list
    IN  {list[i]["ticket_id"] : i \in 1..Len(list)}

\* C37: every ticket that GET /:id returns is an element of the list of
\* GET /, and every element of that list can be fetched by GET /:id; this
\* includes the tickets that only the CSV Mirror holds.
C37_SameTickets ==
    /\ \A id \in TargetIds : Fetchable(id) => id \in ListedIds
    /\ \A id \in ListedIds \ {Empty} : Fetchable(id)

\* the half of C37 from the single read to the list
C37_FetchedIsListed == \A id \in TargetIds : Fetchable(id) => id \in ListedIds

\* the half of C37 from the list to the single read
C37_ListedIsFetched == \A id \in ListedIds \ {Empty} : Fetchable(id)


(***************************************************************************)
(* The sums of ticketsOverTime                                             *)
(***************************************************************************)
\* the sum of the field k over the entries of ticketsOverTime
RECURSIVE SumField(_, _)
SumField(entries, k) ==
    IF entries = << >> THEN 0
    ELSE SumField(Front(entries), k) + Last(entries)[k]

\* the count of the byStatus group Closed, 0 when there is none
ClosedGroupCount(groups) ==
    SumCounts(SelectSeq(groups, LAMBDA g : g.status = <<"Closed">>))

\* C38: in a statistics response computed with no concurrent write the
\* opened counts of ticketsOverTime sum to totalTickets and the closed
\* counts sum to the count of the byStatus group Closed, 0 when there is no
\* such group.
C38_OverTimeSums ==
    StatsAnswered =>
        /\ SumField(last.stats.ticketsOverTime, "opened")
               = last.stats.totalTickets
        /\ SumField(last.stats.ticketsOverTime, "closed")
               = ClosedGroupCount(last.stats.byStatus)

\* a response over two days with a Closed ticket and a ticket that is not
\* Closed
C38_Witness ==
    /\ StatsAnswered
    /\ Len(last.stats.ticketsOverTime) = 2
    /\ ClosedGroupCount(last.stats.byStatus) = 1
    /\ last.stats.totalTickets = 2

\* a response without a group Closed
C38_NoClosedGroup ==
    /\ StatsAnswered
    /\ last.stats.totalTickets > 0
    /\ \A i \in DOMAIN last.stats.byStatus :
           last.stats.byStatus[i].status # <<"Closed">>

====
